---- MODULE Spec2Model ----
(***************************************************************************)
(* Moe: the transaction hook dispatcher of moe/library/lib_item.py, the    *)
(* caller side of moe/plugins/add/add_core.py (session.add, session.flush) *)
(* and the move plugin's edit_new_items implementation of                  *)
(* moe/plugins/move/move_core.py.                                          *)
(*                                                                         *)
(* One flush of the session is one "commit" of the dispatcher:             *)
(*   before_flush -> _edit_before_flush   (PRE-COMMIT)                     *)
(*   the unit of work writes the rows     (DURABLE-WRITE)                  *)
(*   after_flush  -> _process_after_flush (POST-COMMIT)                    *)
(* Every entity carries one tracked attribute, its path.                   *)
(***************************************************************************)
EXTENDS Integers, Sequences, FiniteSets, TLC

(***************************************************************************)
(* Bounds of the model.                                                    *)
(***************************************************************************)
\* side effects (mutate / add / delete) the plugins' hook implementations
\* may perform within one commit
MaxEffects == 2
\* files in a directory that is added
MaxFiles == 4
\* characters of a path part that is sanitized
MaxPartLen == 4
\* characters of a field value a template is evaluated with
MaxFieldLen == 2
\* consecutive move_item calls on one file system
MaxCalls == 2
\* characters of the name of an extra file
MaxNameLen == 3
\* directories between the old album directory and the track file
MaxDepth == 2
\* names of a path given to the path codec
MaxPathLen == 3
\* characters of a stored string given to the path codec
MaxStrLen == 3

(***************************************************************************)
(* Entities, values, plugins.                                              *)
(***************************************************************************)
\* the mapped entities of one session: a Track, an Extra, and a third one
\* that is either an Album (a LibItem) or a genre row (not a LibItem)
Entities == {"track", "extra", "other"}
OtherKinds == {"album", "genre"}

\* values of the tracked attribute: the path the item was imported from and
\* the path formatted by the move plugin
Paths == {"in", "lib"}
NoRow == "norow"

\* session states of an entity: "transient" (not in the session), "pending"
\* (in session.new), "persistent" (in the identity map), "deleted" (in
\* session.deleted), "gone" (deleted and flushed)

EditHooks == {"edit_changed_items", "edit_new_items"}
ProcessHooks == {"process_changed_items", "process_new_items", "process_removed_items"}
HookNames == EditHooks \cup ProcessHooks

\* plugins: "move", the move plugin of this repository, and two further
\* ones, "editor" and "tagger"

VARIABLES
    estate,     \* estate[e]: session state of entity e
    cur,        \* cur[e]: in-memory value of the tracked attribute
    committed,  \* committed[e]: the value the session last loaded or flushed
    db,         \* db[e]: the durably stored value, NoRow if there is no row
    files,      \* entities whose file the current commit copied to the library path
    registered, \* plugins in order of registration
    pc,         \* position of the dispatcher
    implq,      \* implementations of the running hook still to be invoked
    trace,      \* what happened in the current (or the last) commit
    wrote,      \* what the durable write of this commit wrote
    otherKind   \* the class of entity "other"

\* the directory add of moe/plugins/add/add.py (_add_album, add_item) and of
\* the older moe/plugins/add.py (_add_album)
VARIABLES
    dirFiles,     \* the files album_path.rglob("*") yields, by what they hold
    version,      \* which of the two modules runs
    dpc,          \* position within the directory add
    scanned,      \* files the rglob loop has been through
    album_tracks, \* files converted to a Track, in order
    extra_paths,  \* files that failed conversion, in order
    album,        \* the album being built
    session       \* what the add has put into the session

dirVars == <<dirFiles, version, dpc, scanned, album_tracks, extra_paths, album, session>>

\* _sanitize_path_part of moe/plugins/move/move_core.py
VARIABLES
    raw,        \* the path part _sanitize_path_part was called with
    path_part,  \* the path part after the replacements made so far
    rule        \* the entry of PATH_REPLACE_CHARS the loop is at

sanVars == <<raw, path_part, rule>>

\* _eval_path_template of moe/plugins/move/move_core.py
VARIABLES
    template,         \* the path template, a sequence of characters and fields
    lib_item,         \* the item: the values of its fields
    part_no,          \* template parts the loop has been through
    sanitized_parts,  \* the sanitized parts kept so far
    evaluated         \* the evaluated path, once it is returned

tplVars == <<template, lib_item, part_no, sanitized_parts, evaluated>>

\* move_item of moe/plugins/move/move_core.py, on a file system
VARIABLES
    dirs,           \* the directories that exist; a path is a sequence of names
    fsfiles,        \* the files that exist: fsfiles[path] is what the file holds
    item_path,      \* item_path[i]: the path attribute of item i
    mpc,            \* position within move_item
    call_item,      \* the item move_item was called with
    todo,           \* the tracks and extras still to be moved in this call
    old_album_dir,  \* _move_album: the path the album had when called
    visit,          \* the paths the running cleanup loop has still to try
    returned        \* the calls that have returned: item, and what was found and left

mvVars == <<dirs, fsfiles, item_path, mpc, call_item, todo, old_album_dir, visit, returned>>

\* PathType: a path on its way into the database and back
VARIABLES
    pathlib_path,   \* the path process_bind_param is given
    path_str,       \* the string stored
    decoded,        \* the path process_result_value returns
    cpc             \* "bind", "result", "done"; "unused" in the other machines
codecVars == <<pathlib_path, path_str, decoded, cpc>>

\* the variables of the other machines of this module
others == <<dirVars, sanVars, tplVars, mvVars, codecVars>>

\* the variables of the dispatcher
flushVars == <<estate, cur, committed, db, files, registered, pc, implq, trace, wrote,
               otherKind>>

vars == <<flushVars, others>>

\* what the directory add, the sanitizer, the template evaluation, move_item,
\* the path codec leave alone
exceptDir == <<flushVars, sanVars, tplVars, mvVars, codecVars>>
exceptSan == <<flushVars, dirVars, tplVars, mvVars, codecVars>>
exceptTpl == <<flushVars, dirVars, sanVars, mvVars, codecVars>>
exceptMv == <<flushVars, dirVars, sanVars, tplVars, codecVars>>
exceptCodec == <<flushVars, dirVars, sanVars, tplVars, mvVars>>

\* isinstance(item, LibItem), with a mutant under which every mapped entity
\* passes
IsLibItemAny(e) == TRUE
IsLibItem(e) == e \in {"track", "extra"} \/ otherKind = "album"


(***************************************************************************)
(* Hook registry: priority tiers and invocation order.                     *)
(***************************************************************************)
\* @moe.hookimpl(trylast=True) on the move plugin's edit_new_items
MoveTierNormal == "normal"
MoveTier == "last"

Tier(p) == CASE p = "move" -> MoveTier
             [] p = "tagger" -> "first"
             [] OTHER -> "normal"

\* the move plugin implements edit_new_items only; the other plugins
\* implement every edit_* and process_* hook.  Under the mutant the move
\* plugin implements process_new_items instead
ImplementsMoveAfterFlush(p, h) == p = "move" => h = "process_new_items"
Implements(p, h) == p = "move" => h = "edit_new_items"

\* invocation order: first tier, then normal tier, then last tier, and
\* registration order within a tier
InvocationOrder(reg) ==
    SelectSeq(reg, LAMBDA p : Tier(p) = "first")
      \o SelectSeq(reg, LAMBDA p : Tier(p) = "normal")
      \o SelectSeq(reg, LAMBDA p : Tier(p) = "last")

\* the implementations of hook h, in the order they are invoked
HookImpls(h) == SelectSeq(InvocationOrder(registered), LAMBDA p : Implements(p, h))

\* the plugins are registered at the tiers last, normal, first, in that
\* order
Registrations == {<<"move", "editor", "tagger">>}

(***************************************************************************)
(* Classification of the session's pending entities.                       *)
(***************************************************************************)
\* session.is_modified(e): a net change against the committed value
IsModified(e) == cur[e] # committed[e]

\* lib_item.py:148-151 and 188-191, with a mutant that forgets is_modified
ChangedItemsAnyDirty == {e \in Entities : estate[e] = "persistent" /\ IsLibItem(e)}
ChangedItems ==
    {e \in Entities : estate[e] = "persistent" /\ IsModified(e) /\ IsLibItem(e)}

\* lib_item.py:159-162 and 199-202, with a mutant that iterates over the
\* whole session instead of session.new
NewItemsWholeSession ==
    {e \in Entities : estate[e] \in {"pending", "persistent"} /\ IsLibItem(e)}
NewItems == {e \in Entities : estate[e] = "pending" /\ IsLibItem(e)}

\* lib_item.py:208-211, with a mutant that iterates over the whole session
\* instead of session.deleted
RemovedItemsWholeSession ==
    {e \in Entities : estate[e] \in {"persistent", "deleted"} /\ IsLibItem(e)}
RemovedItems == {e \in Entities : estate[e] = "deleted" /\ IsLibItem(e)}

\* the batch handed to hook h
Batch(h) == CASE h \in {"edit_changed_items", "process_changed_items"} -> ChangedItems
              [] h \in {"edit_new_items", "process_new_items"} -> NewItems
              [] OTHER -> RemovedItems

\* session._flush returns at once, dispatching no event, when nothing is
\* new, dirty or deleted
SomethingToFlush ==
    \E e \in Entities :
        \/ estate[e] \in {"pending", "deleted"}
        \/ estate[e] = "persistent" /\ IsModified(e)

(***************************************************************************)
(* The log of one commit.                                                  *)
(***************************************************************************)
Ev(k, h, p, eff, its) == [kind |-> k, hook |-> h, plugin |-> p, effect |-> eff, items |-> its]

\* the dispatcher calls hook h with a batch
CallEv(h, its) == Ev("call", h, "", "", its)
\* implementation p of hook h ran, with the given effect on the session
ImplEv(h, p, eff) == Ev("impl", h, p, eff, {})
WriteEv == Ev("write", "", "", "", {})
WriteErrorEv == Ev("write_error", "", "", "", {})
\* add_item attached the item to the session
AttachEv(e) == Ev("attach", "", "", "", {e})
\* the prompt that follows pre_add returned no album
DeclinedEv == Ev("declined", "", "", "", {})

NoWrite == [new |-> {}, changed |-> {}, removed |-> {}, vals |-> <<>>, before |-> <<>>]

\* side effects performed by hook implementations in this commit
Effects == Len(SelectSeq(trace, LAMBDA ev : ev.effect \in {"mutate", "add", "delete"}))

\* the batch of the hook now running
CurBatch == LET calls == SelectSeq(trace, LAMBDA ev : ev.kind = "call")
            IN calls[Len(calls)].items

\* the step that follows hook h in add_item / _edit_before_flush / the
\* flush / _process_after_flush, with a mutant that handles the removed
\* items before the new ones
AfterRemovedBeforeNew(h) ==
    CASE h = "pre_add" -> "attach"
      [] h = "edit_changed_items" -> "edit_new_items"
      [] h = "edit_new_items" -> "write"
      [] h = "process_changed_items" -> "process_removed_items"
      [] h = "process_removed_items" -> "process_new_items"
      [] OTHER -> "finalize"
After(h) == CASE h = "pre_add" -> "attach"
              [] h = "edit_changed_items" -> "edit_new_items"
              [] h = "edit_new_items" -> "write"
              [] h = "process_changed_items" -> "process_new_items"
              [] h = "process_new_items" -> "process_removed_items"
              [] OTHER -> "finalize"

(***************************************************************************)
(* The other machines of this module are not running.                      *)
(***************************************************************************)
NoAlbum == [key |-> "none", tracks |-> <<>>, extras |-> <<>>]

DirUnused ==
    /\ dirFiles = <<>>
    /\ version = "none"
    /\ dpc = "unused"
    /\ scanned = 0
    /\ album_tracks = <<>>
    /\ extra_paths = <<>>
    /\ album = NoAlbum
    /\ session = <<>>

SanUnused ==
    /\ raw = <<>>
    /\ path_part = <<>>
    /\ rule = 0

NotEvaluated == <<"not evaluated">>

TplUnused ==
    /\ template = <<>>
    /\ lib_item = <<>>
    /\ part_no = 0
    /\ sanitized_parts = <<>>
    /\ evaluated = NotEvaluated

MvUnused ==
    /\ dirs = {}
    /\ fsfiles = <<>>
    /\ item_path = <<>>
    /\ mpc = "unused"
    /\ call_item = "none"
    /\ todo = <<>>
    /\ old_album_dir = <<>>
    /\ visit = <<>>
    /\ returned = <<>>

NoPath == [none |-> TRUE]
CodecUnused ==
    /\ pathlib_path = NoPath
    /\ path_str = <<>>
    /\ decoded = NoPath
    /\ cpc = "unused"

OthersUnused == DirUnused /\ SanUnused /\ TplUnused /\ MvUnused /\ CodecUnused

(***************************************************************************)
(* Initial state: an empty library, an empty session, the plugins          *)
(* registered in some order.                                               *)
(***************************************************************************)
Init ==
    /\ estate = [e \in Entities |-> "transient"]
    /\ cur = [e \in Entities |-> "in"]
    /\ committed = [e \in Entities |-> "in"]
    /\ db = [e \in Entities |-> NoRow]
    /\ files = {}
    /\ registered \in Registrations
    /\ pc = "idle"
    /\ implq = <<>>
    /\ trace = <<>>
    /\ wrote = NoWrite
    /\ otherKind \in OtherKinds
    /\ OthersUnused

(***************************************************************************)
(* The application between commits.                                        *)
(***************************************************************************)
\* add_core.py:79  session.add(item)
SessionAdd(e) ==
    /\ pc = "idle"
    /\ estate[e] = "transient"
    /\ estate' = [estate EXCEPT ![e] = "pending"]
    /\ UNCHANGED <<cur, committed, db, files, registered, pc, implq, trace, wrote, otherKind, others>>

\* a caller sets the tracked attribute of an entity of the library
SetAttr(e, v) ==
    /\ pc = "idle"
    /\ estate[e] = "persistent"
    /\ v # cur[e]
    /\ cur' = [cur EXCEPT ![e] = v]
    /\ UNCHANGED <<estate, committed, db, files, registered, pc, implq, trace, wrote, otherKind, others>>

\* a caller marks a persistent entity for deletion (session.delete)
SessionDelete(e) ==
    /\ pc = "idle"
    /\ estate[e] = "persistent"
    /\ estate' = [estate EXCEPT ![e] = "deleted"]
    /\ UNCHANGED <<cur, committed, db, files, registered, pc, implq, trace, wrote, otherKind, others>>

\* add_core.py:80  session.flush(): a commit starts
Flush ==
    /\ pc = "idle"
    /\ SomethingToFlush
    /\ pc' = "edit_changed_items"
    /\ UNCHANGED <<estate, cur, committed, db, files, registered, implq, trace, wrote, otherKind, others>>

(***************************************************************************)
(* The dispatcher.                                                         *)
(***************************************************************************)
\* classify, and call hook h with the whole batch unless the batch is empty
CallHook(h) ==
    /\ pc = h
    /\ implq = <<>>
    /\ IF Batch(h) = {}
       THEN /\ pc' = After(h)
            /\ UNCHANGED <<implq, trace>>
       ELSE /\ trace' = Append(trace, CallEv(h, Batch(h)))
            /\ implq' = HookImpls(h)
            /\ pc' = pc
    /\ UNCHANGED <<estate, cur, committed, db, files, registered, wrote, otherKind, others>>

\* lib_item.py:148-157
EditChangedItems == CallHook("edit_changed_items")
\* lib_item.py:159-166
EditNewItems == CallHook("edit_new_items")
\* lib_item.py:188-197
ProcessChangedItems == CallHook("process_changed_items")
\* lib_item.py:199-206
ProcessNewItems == CallHook("process_new_items")
\* lib_item.py:208-217
ProcessRemovedItems == CallHook("process_removed_items")

(***************************************************************************)
(* Hook implementations.  The implementations of a hook run one after the  *)
(* other; each of them may leave the session alone, set an attribute, add  *)
(* or delete an entity, or raise.                                          *)
(***************************************************************************)
\* implementation Head(implq) of hook pc returns, having had effect eff
Returned(eff) ==
    /\ trace' = Append(trace, ImplEv(pc, Head(implq), eff))
    /\ implq' = Tail(implq)
    /\ pc' = IF Tail(implq) = <<>> THEN After(pc) ELSE pc

\* the plugins whose code is not part of this repository: "tagger" only
\* reads the items it is given, "editor" also changes the session
OtherPluginRuns == implq # <<>> /\ Head(implq) # "move"
EditorRuns == implq # <<>> /\ Head(implq) = "editor"

ImplReturns ==
    /\ OtherPluginRuns
    /\ Returned("none")
    /\ UNCHANGED <<estate, cur, committed, db, files, registered, wrote, otherKind, others>>

\* an edit hook may set the attribute of any entity of the session, a
\* process hook that of an item it received
ImplSetAttr(e, v) ==
    /\ EditorRuns
    /\ Effects < MaxEffects
    /\ IF pc \in EditHooks
       THEN estate[e] \in {"pending", "persistent"} /\ IsLibItem(e)
       ELSE e \in CurBatch
    /\ v # cur[e]
    /\ cur' = [cur EXCEPT ![e] = v]
    /\ Returned("mutate")
    /\ UNCHANGED <<estate, committed, db, files, registered, wrote, otherKind, others>>

ImplSessionAdd(e) ==
    /\ EditorRuns
    /\ Effects < MaxEffects
    /\ pc \in EditHooks
    /\ estate[e] = "transient"
    /\ IsLibItem(e)
    /\ estate' = [estate EXCEPT ![e] = "pending"]
    /\ Returned("add")
    /\ UNCHANGED <<cur, committed, db, files, registered, wrote, otherKind, others>>

ImplSessionDelete(e) ==
    /\ EditorRuns
    /\ Effects < MaxEffects
    /\ pc \in EditHooks
    /\ estate[e] = "persistent"
    /\ IsLibItem(e)
    /\ estate' = [estate EXCEPT ![e] = "deleted"]
    /\ Returned("delete")
    /\ UNCHANGED <<cur, committed, db, files, registered, wrote, otherKind, others>>

\* an edit hook raises: before_flush is dispatched outside the flush's
\* transaction, the exception leaves _edit_before_flush and session.flush()
\* and nothing is undone.  Under the mutant the dispatcher swallows the
\* exception and goes on
ImplRaisesSwallowed ==
    /\ OtherPluginRuns
    /\ pc \in EditHooks
    /\ Returned("raise")
    /\ UNCHANGED <<estate, cur, committed, db, files, registered, wrote, otherKind, others>>

ImplRaises ==
    /\ OtherPluginRuns
    /\ pc \in EditHooks
    /\ trace' = Append(trace, ImplEv(pc, Head(implq), "raise"))
    /\ implq' = <<>>
    /\ pc' = "raised"
    /\ UNCHANGED <<estate, cur, committed, db, files, registered, wrote, otherKind, others>>

\* move_core.py:44-48 with _copy_file_item (216-229): every item of the
\* batch whose path is not the formatted one is copied there and its path
\* is set to the copy
MoveEditNewItems ==
    /\ implq # <<>>
    /\ Head(implq) = "move"
    /\ files' = files \cup {e \in CurBatch : cur[e] # "lib"}
    /\ cur' = [e \in Entities |-> IF e \in CurBatch THEN "lib" ELSE cur[e]]
    /\ Returned(IF \E e \in CurBatch : cur[e] # "lib" THEN "copy" ELSE "none")
    /\ UNCHANGED <<estate, committed, db, registered, wrote, otherKind, others>>

(***************************************************************************)
(* The add pipeline: add_item of moe/plugins/add/add_core.py, and the      *)
(* prompt of moe/plugins/add/add.py.                                       *)
(***************************************************************************)
\* the item of the running add_item
AddedItem == CHOOSE e \in Entities : e \in trace[1].items

\* add_core.py:76-78: add_item(item) first calls the pre_add hook with the
\* item; under the mutant the item is attached to the session before that
AddItemAttachesFirst(e) ==
    /\ pc = "idle"
    /\ estate[e] = "transient"
    /\ IsLibItem(e)
    /\ estate' = [estate EXCEPT ![e] = "pending"]
    /\ trace' = <<CallEv("pre_add", {e})>>
    /\ implq' = HookImpls("pre_add")
    /\ pc' = "pre_add"
    /\ UNCHANGED <<cur, committed, db, files, registered, wrote, otherKind, others>>

AddItem(e) ==
    /\ pc = "idle"
    /\ estate[e] = "transient"
    /\ IsLibItem(e)
    /\ trace' = <<CallEv("pre_add", {e})>>
    /\ implq' = HookImpls("pre_add")
    /\ pc' = "pre_add"
    /\ UNCHANGED <<estate, cur, committed, db, files, registered, wrote, otherKind, others>>

\* add_core.py:61: a pre_add implementation raises AddAbortError, which
\* leaves add_item at line 78; under the mutant the dispatcher swallows it
PreAddAbortSwallowed ==
    /\ OtherPluginRuns
    /\ pc = "pre_add"
    /\ Returned("abort")
    /\ UNCHANGED <<estate, cur, committed, db, files, registered, wrote, otherKind, others>>

PreAddAborts ==
    /\ OtherPluginRuns
    /\ pc = "pre_add"
    /\ trace' = Append(trace, ImplEv(pc, Head(implq), "abort"))
    /\ implq' = <<>>
    /\ pc' = "raised"
    /\ UNCHANGED <<estate, cur, committed, db, files, registered, wrote, otherKind, others>>

\* add/add.py:119-125: the prompt returns no album and add_item returns
\* without merging anything into the session
PromptReturnsNone ==
    /\ pc = "attach"
    /\ trace' = Append(trace, DeclinedEv)
    /\ pc' = "returned"
    /\ UNCHANGED <<estate, cur, committed, db, files, registered, implq, wrote, otherKind, others>>

\* add_core.py:79-80: session.add(item), session.flush(); under the mutant
\* attaching the item reloads its attributes
AddItemAttachReloads ==
    /\ pc = "attach"
    /\ estate' = [estate EXCEPT ![AddedItem] = "pending"]
    /\ cur' = [cur EXCEPT ![AddedItem] = committed[AddedItem]]
    /\ trace' = Append(trace, AttachEv(AddedItem))
    /\ pc' = "edit_changed_items"
    /\ UNCHANGED <<committed, db, files, registered, implq, wrote, otherKind, others>>

AddItemAttach ==
    /\ pc = "attach"
    /\ estate' = [estate EXCEPT ![AddedItem] = "pending"]
    /\ trace' = Append(trace, AttachEv(AddedItem))
    /\ pc' = "edit_changed_items"
    /\ UNCHANGED <<cur, committed, db, files, registered, implq, wrote, otherKind, others>>

\* the exception that leaves add_item when the dispatcher has raised:
\* add_core.py:78-80 has no try/except, whatever pre_add or session.flush()
\* raise reaches the caller as it is
Surfaced ==
    CASE trace[Len(trace)].kind = "write_error" -> "DbError"
      [] trace[Len(trace)].effect = "abort" -> "AddAbortError"
      [] OTHER -> "HookError"

\* add_item returns to its caller without having flushed
AddItemReturns ==
    /\ pc = "returned"
    /\ pc' = "idle"
    /\ trace' = <<>>
    /\ UNCHANGED <<estate, cur, committed, db, files, registered, implq, wrote, otherKind, others>>

(***************************************************************************)
(* The durable write, between before_flush and after_flush.                *)
(***************************************************************************)
\* the entities a flush has something to write for
Flushed(e) ==
    \/ estate[e] \in {"pending", "deleted"}
    \/ estate[e] = "persistent" /\ IsModified(e)

\* the unit of work inserts the pending, updates the modified and deletes
\* the deleted entities
DurableWrite ==
    /\ pc = "write"
    /\ db' = [e \in Entities |->
                CASE estate[e] = "pending" -> cur[e]
                  [] estate[e] = "persistent" /\ IsModified(e) -> cur[e]
                  [] estate[e] = "deleted" -> NoRow
                  [] OTHER -> db[e]]
    /\ wrote' = [new |-> {e \in Entities : estate[e] = "pending"},
                 changed |-> {e \in Entities : estate[e] = "persistent" /\ IsModified(e)},
                 removed |-> {e \in Entities : estate[e] = "deleted"},
                 vals |-> [e \in Entities |-> IF Flushed(e) THEN cur[e] ELSE NoRow],
                 before |-> [e \in Entities |->
                     IF estate[e] = "persistent" /\ IsModified(e) THEN db[e] ELSE NoRow]]
    /\ trace' = Append(trace, WriteEv)
    /\ pc' = "process_changed_items"
    /\ UNCHANGED <<estate, cur, committed, files, registered, implq, otherKind, others>>

\* the write raises (a constraint is violated, the store fails): the
\* session rolls back, expunging the pending entities and reloading the
\* persistent ones, and after_flush is not dispatched.  Under the mutant
\* the process hooks listen to an event that is dispatched all the same
DurableWriteFailsThenProcess ==
    /\ pc = "write"
    /\ trace' = Append(trace, WriteErrorEv)
    /\ pc' = "process_changed_items"
    /\ UNCHANGED <<estate, cur, committed, db, files, registered, implq, wrote, otherKind, others>>

DurableWriteFails ==
    /\ pc = "write"
    /\ estate' = [e \in Entities |->
                    CASE estate[e] = "pending" -> "transient"
                      [] estate[e] = "deleted" -> "persistent"
                      [] OTHER -> estate[e]]
    /\ cur' = [e \in Entities |->
                 IF estate[e] \in {"persistent", "deleted"} THEN db[e] ELSE cur[e]]
    /\ committed' = [e \in Entities |->
                 IF estate[e] \in {"persistent", "deleted"} THEN db[e] ELSE committed[e]]
    /\ trace' = Append(trace, WriteErrorEv)
    /\ pc' = "raised"
    /\ UNCHANGED <<db, files, registered, implq, wrote, otherKind, others>>

\* the flush ends: pending entities become persistent, deleted ones leave
\* the session (their in-memory values no longer matter and are reset), and
\* every attribute history is reset, also one accumulated within
\* after_flush ("Any changes made to the items will be lost"); the mutant
\* keeps the history against the stored row.  The logs of the commit (trace,
\* wrote, files) start afresh
FinalizeKeepsHistory ==
    [e \in Entities |-> IF db[e] = NoRow THEN "in" ELSE db[e]]
FinalizeCommitted ==
    [e \in Entities |-> IF estate[e] = "deleted" THEN "in" ELSE cur[e]]

FinalizeFlush ==
    /\ pc = "finalize"
    /\ estate' = [e \in Entities |->
                    CASE estate[e] = "pending" -> "persistent"
                      [] estate[e] = "deleted" -> "gone"
                      [] OTHER -> estate[e]]
    /\ committed' = FinalizeCommitted
    /\ cur' = [e \in Entities |-> IF estate[e] = "deleted" THEN "in" ELSE cur[e]]
    /\ pc' = "idle"
    /\ trace' = <<>>
    /\ wrote' = NoWrite
    /\ files' = {}
    /\ UNCHANGED <<db, registered, implq, otherKind, others>>

\* the exception of a hook or of the write reaches the caller of
\* session.flush(); the dispatcher is idle again
FlushRaises ==
    /\ pc = "raised"
    /\ pc' = "idle"
    /\ trace' = <<>>
    /\ wrote' = NoWrite
    /\ files' = {}
    /\ UNCHANGED <<estate, cur, committed, db, registered, implq, otherKind, others>>

(***************************************************************************)
(* Specification.                                                          *)
(***************************************************************************)
Next ==
    \/ \E e \in Entities : SessionAdd(e)
    \/ \E e \in Entities, v \in Paths : SetAttr(e, v)
    \/ \E e \in Entities : SessionDelete(e)
    \/ Flush
    \/ EditChangedItems
    \/ EditNewItems
    \/ ImplReturns
    \/ \E e \in Entities, v \in Paths : ImplSetAttr(e, v)
    \/ \E e \in Entities : ImplSessionAdd(e)
    \/ \E e \in Entities : ImplSessionDelete(e)
    \/ ImplRaises
    \/ MoveEditNewItems
    \/ DurableWrite
    \/ DurableWriteFails
    \/ ProcessChangedItems
    \/ ProcessNewItems
    \/ ProcessRemovedItems
    \/ FinalizeFlush
    \/ FlushRaises

Spec == Init /\ [][Next]_vars

\* the library used through add_item only: items enter the session with
\* add_item, the callers' other changes are flushed by the next add_item
NextAdd ==
    \/ \E e \in Entities : AddItem(e)
    \/ PreAddAborts
    \/ PromptReturnsNone
    \/ AddItemAttach
    \/ AddItemReturns
    \/ \E e \in Entities, v \in Paths : SetAttr(e, v)
    \/ \E e \in Entities : SessionDelete(e)
    \/ EditChangedItems
    \/ EditNewItems
    \/ ImplReturns
    \/ \E e \in Entities, v \in Paths : ImplSetAttr(e, v)
    \/ \E e \in Entities : ImplSessionAdd(e)
    \/ \E e \in Entities : ImplSessionDelete(e)
    \/ ImplRaises
    \/ MoveEditNewItems
    \/ DurableWrite
    \/ DurableWriteFails
    \/ ProcessChangedItems
    \/ ProcessNewItems
    \/ ProcessRemovedItems
    \/ FinalizeFlush
    \/ FlushRaises

AddSpec == Init /\ [][NextAdd]_vars

(***************************************************************************)
(* Reading the log of the current commit.                                  *)
(***************************************************************************)
\* positions at which hook h was called
CallIdx(h) == {i \in DOMAIN trace : trace[i].kind = "call" /\ trace[i].hook = h}
Called(h) == CallIdx(h) # {}
\* the items hook h was given in this commit
BatchOf(h) == UNION {trace[i].items : i \in CallIdx(h)}
\* positions of the calls and of the implementation runs of the hooks H
HookIdx(H) == {i \in DOMAIN trace : trace[i].kind \in {"call", "impl"} /\ trace[i].hook \in H}
ImplIdx(H) == {i \in DOMAIN trace : trace[i].kind = "impl" /\ trace[i].hook \in H}
WriteIdx == {i \in DOMAIN trace : trace[i].kind = "write"}
WriteErrorIdx == {i \in DOMAIN trace : trace[i].kind = "write_error"}
\* hook h has just been called, none of its implementations has run yet
JustCalled(h) ==
    /\ trace # <<>>
    /\ trace[Len(trace)].kind = "call"
    /\ trace[Len(trace)].hook = h
LastItems == trace[Len(trace)].items
\* the plugins that ran for hook h, in order
RanFor(h) ==
    LET evs == SelectSeq(trace, LAMBDA ev : ev.kind = "impl" /\ ev.hook = h)
    IN [i \in DOMAIN evs |-> evs[i].plugin]

\* the classes of the entities, written out
OfLibItemClass(e) == e # "other" \/ otherKind = "album"
PendingLibItems == {e \in Entities : OfLibItemClass(e) /\ estate[e] = "pending"}
ModifiedLibItems ==
    {e \in Entities : OfLibItemClass(e) /\ estate[e] = "persistent" /\ cur[e] # committed[e]}
DeletedLibItems == {e \in Entities : OfLibItemClass(e) /\ estate[e] = "deleted"}

PostCommit == ProcessHooks \cup {"finalize"}

(***************************************************************************)
(* C1                                                                      *)
(***************************************************************************)
\* C1 as stated: PRE-COMMIT of every commit calls edit_changed_items and
\* then edit_new_items, each exactly once.
C1_EachEditHookOncePerCommit ==
    pc = "write" =>
        /\ Cardinality(CallIdx("edit_changed_items")) = 1
        /\ Cardinality(CallIdx("edit_new_items")) = 1

\* C1 (amended): in PRE-COMMIT each of edit_changed_items and
\* edit_new_items is called at most once per commit, exactly when its batch is
\* not empty, with the whole batch of changed (new) LibItems, and a call of
\* edit_changed_items comes strictly before a call of edit_new_items.
C1_EditChangedThenEditNew ==
    /\ \A h \in EditHooks : Cardinality(CallIdx(h)) <= 1
    /\ \A i \in CallIdx("edit_changed_items"), j \in CallIdx("edit_new_items") : i < j
    /\ JustCalled("edit_changed_items") =>
           LastItems = ModifiedLibItems /\ LastItems # {}
    /\ JustCalled("edit_new_items") =>
           LastItems = PendingLibItems /\ LastItems # {}
    /\ (pc = "edit_new_items" /\ implq = <<>> /\ ~Called("edit_changed_items")) =>
           ModifiedLibItems = {}
    /\ (pc = "write" /\ ~Called("edit_new_items")) => PendingLibItems = {}

\* both edit hooks were called in one commit, edit_new_items with two items
C1_Witness ==
    /\ pc = "write"
    /\ Called("edit_changed_items")
    /\ Cardinality(BatchOf("edit_new_items")) = 2

(***************************************************************************)
(* C2                                                                      *)
(***************************************************************************)
\* C2: in POST-COMMIT the process hooks are called in the order
\* process_changed_items, process_new_items, process_removed_items, each at
\* most once and with the whole batch of its class.
C2_ProcessOrder ==
    /\ \A h \in ProcessHooks : Cardinality(CallIdx(h)) <= 1
    /\ \A i \in CallIdx("process_changed_items"), j \in CallIdx("process_new_items") : i < j
    /\ \A i \in CallIdx("process_new_items"), j \in CallIdx("process_removed_items") : i < j
    /\ \A i \in CallIdx("process_changed_items"), j \in CallIdx("process_removed_items") : i < j
    /\ JustCalled("process_changed_items") => LastItems = ModifiedLibItems
    /\ JustCalled("process_new_items") => LastItems = PendingLibItems
    /\ JustCalled("process_removed_items") => LastItems = DeletedLibItems

\* a commit in which all three process hooks were called
C2_Witness ==
    /\ pc = "finalize"
    /\ \A h \in ProcessHooks : Called(h)

(***************************************************************************)
(* C3                                                                      *)
(***************************************************************************)
\* C3 as stated: the batches of process_changed_items and process_new_items
\* are the batches edit_changed_items and edit_new_items were given in the
\* same commit.
C3_SameSnapshot ==
    pc = "finalize" =>
        /\ BatchOf("process_changed_items") = BatchOf("edit_changed_items")
        /\ BatchOf("process_new_items") = BatchOf("edit_new_items")

\* whether an edit hook implementation set an attribute, added or deleted
\* an entity in this commit
EditHookChangedSession ==
    \E i \in ImplIdx(EditHooks) : trace[i].effect \in {"mutate", "add", "delete"}

\* C3 (amended): POST-COMMIT classifies again: the batches of
\* process_changed_items and process_new_items are the changed and the new
\* LibItems the durable write wrote, and they are the batches of the edit
\* hooks in every commit in which no edit hook implementation set an
\* attribute, added or deleted an entity.
C3_ClassifiedAgainAfterWrite ==
    pc = "finalize" =>
        /\ BatchOf("process_changed_items") = {e \in wrote.changed : OfLibItemClass(e)}
        /\ BatchOf("process_new_items") = {e \in wrote.new : OfLibItemClass(e)}
        /\ ~EditHookChangedSession =>
              /\ BatchOf("process_changed_items") = BatchOf("edit_changed_items")
              /\ BatchOf("process_new_items") = BatchOf("edit_new_items")

\* an edit hook changed the session and the process batches differ from
\* the edit batches
C3_Witness ==
    /\ pc = "finalize"
    /\ EditHookChangedSession
    /\ BatchOf("process_changed_items") # BatchOf("edit_changed_items")
    /\ BatchOf("process_new_items") = BatchOf("edit_new_items")
    /\ BatchOf("edit_new_items") # {}

(***************************************************************************)
(* C4                                                                      *)
(***************************************************************************)
\* C4: every edit hook invocation of a commit precedes the durable write,
\* every process hook invocation follows a successful durable write, and
\* when the write raises no process hook is invoked and the flush ends.
C4_EditWriteProcess ==
    /\ \A i \in HookIdx(EditHooks), j \in WriteIdx \cup WriteErrorIdx : i < j
    /\ \A i \in HookIdx(ProcessHooks) : \E j \in WriteIdx : j < i
    /\ pc \in EditHooks => WriteIdx = {}
    /\ pc \in PostCommit => WriteIdx # {}
    /\ WriteErrorIdx # {} =>
          /\ HookIdx(ProcessHooks) = {}
          /\ WriteIdx = {}
          /\ pc = "raised"
          /\ implq = <<>>

\* the durable write raised in a commit whose edit hooks were called
C4_Witness ==
    /\ WriteErrorIdx # {}
    /\ Called("edit_changed_items")
    /\ Called("edit_new_items")

(***************************************************************************)
(* C5                                                                      *)
(***************************************************************************)
\* C5: when an implementation of an edit hook raises, nothing more happens
\* in that commit: no later implementation or hook is invoked, the durable
\* write is not performed, no process hook is invoked, and the exception
\* leaves the flush.
C5_EditRaiseAborts ==
    \A i \in DOMAIN trace :
        trace[i].effect = "raise" =>
            /\ i = Len(trace)
            /\ WriteIdx = {}
            /\ WriteErrorIdx = {}
            /\ HookIdx(ProcessHooks) = {}
            /\ pc = "raised"
            /\ implq = <<>>
            /\ \A e \in Entities : estate[e] = "pending" => db[e] = NoRow

\* edit_changed_items raised while new LibItems waited for edit_new_items
C5_Witness ==
    /\ \E i \in ImplIdx({"edit_changed_items"}) : trace[i].effect = "raise"
    /\ PendingLibItems # {}

(***************************************************************************)
(* C6                                                                      *)
(***************************************************************************)
\* positions at which the move plugin copied files
CopyIdx == {i \in DOMAIN trace : trace[i].effect = "copy"}

C7_ProcessMutationsNotPersisted ==
    [][/\ pc \in PostCommit => db' = db
       /\ pc = "finalize" => ~SomethingToFlush'
       /\ pc \in PostCommit =>
             \A e \in wrote.new \cup wrote.changed : db[e] = wrote.vals[e]]_vars

\* a commit ends in which a process hook changed an item after the write
C7_Witness ==
    /\ pc = "finalize"
    /\ \E i \in ImplIdx(ProcessHooks) : trace[i].effect = "mutate"
    /\ \E e \in wrote.new \cup wrote.changed : cur[e] # db[e]

(***************************************************************************)
(* C8                                                                      *)
(***************************************************************************)
NewHanded == BatchOf("edit_new_items") \cup BatchOf("process_new_items")
ChangedHanded == BatchOf("edit_changed_items") \cup BatchOf("process_changed_items")
RemovedHanded == BatchOf("process_removed_items")

\* the lifecycle of the items of a batch: a new item has no stored row
\* before the commit, a changed one has a stored row and a value that
\* differs from the one the session holds as last persisted, a removed one
\* is marked for deletion
BatchesFollowLifecycle ==
    /\ JustCalled("edit_new_items") =>
          \A e \in LastItems : db[e] = NoRow /\ estate[e] = "pending"
    /\ JustCalled("process_new_items") =>
          \A e \in LastItems : e \in wrote.new /\ estate[e] = "pending"
    /\ JustCalled("edit_changed_items") =>
          \A e \in LastItems : db[e] # NoRow /\ cur[e] # committed[e]
    /\ JustCalled("process_changed_items") =>
          \A e \in LastItems : wrote.before[e] # NoRow /\ wrote.vals[e] # committed[e]
    /\ JustCalled("process_removed_items") => \A e \in LastItems : estate[e] = "deleted"

\* C8 as stated: the new, changed and removed entities handed to the hooks
\* of one commit are pairwise disjoint and follow the lifecycle.
C8_DisjointInCommit ==
    /\ NewHanded \cap ChangedHanded = {}
    /\ NewHanded \cap RemovedHanded = {}
    /\ ChangedHanded \cap RemovedHanded = {}
    /\ BatchesFollowLifecycle

\* C8 (amended): the batches of one phase of a commit are pairwise
\* disjoint (edit_changed_items and edit_new_items; process_changed_items,
\* process_new_items and process_removed_items) and follow the lifecycle;
\* an item an edit hook deletes is in the changed batch of PRE-COMMIT and in
\* the removed batch of POST-COMMIT.
C8_DisjointWithinPhase ==
    /\ BatchOf("edit_new_items") \cap BatchOf("edit_changed_items") = {}
    /\ BatchOf("process_new_items") \cap BatchOf("process_changed_items") = {}
    /\ BatchOf("process_new_items") \cap BatchOf("process_removed_items") = {}
    /\ BatchOf("process_changed_items") \cap BatchOf("process_removed_items") = {}
    /\ BatchesFollowLifecycle

\* a commit that handed a changed, a new and a removed item to the process
\* hooks
C8_Witness ==
    /\ pc = "finalize"
    /\ BatchOf("process_changed_items") # {}
    /\ BatchOf("process_new_items") # {}
    /\ BatchOf("process_removed_items") # {}
    /\ BatchOf("edit_changed_items") # {}

(***************************************************************************)
(* C9                                                                      *)
(***************************************************************************)
\* C9: an entity that is not a LibItem is in no batch of any hook.
C9_OnlyLibItemsInBatches ==
    \A i \in DOMAIN trace :
        trace[i].kind = "call" => \A e \in trace[i].items : OfLibItemClass(e)

\* a process hook is called in a commit that wrote the genre row
C9_Witness ==
    /\ otherKind = "genre"
    /\ "other" \in wrote.new \cup wrote.changed \cup wrote.removed
    /\ \E h \in ProcessHooks : JustCalled(h)

(***************************************************************************)
(* C10                                                                     *)
(***************************************************************************)
IsPrefix(s, t) == Len(s) <= Len(t) /\ \A i \in DOMAIN s : s[i] = t[i]

\* C10: with the plugins registered at the tiers last (move), normal
\* (editor), first (tagger), in that order, the implementations of every
\* hook run first tier, normal tier, last tier: the move plugin's
\* edit_new_items runs after every other implementation of edit_new_items.
C10_TierOrder ==
    registered = <<"move", "editor", "tagger">> =>
        /\ IsPrefix(RanFor("edit_new_items"), <<"tagger", "editor", "move">>)
        /\ \A h \in HookNames \ {"edit_new_items"} :
              IsPrefix(RanFor(h), <<"tagger", "editor">>)
        /\ pc = "write" /\ Called("edit_new_items") =>
              RanFor("edit_new_items") = <<"tagger", "editor", "move">>

\* all three implementations of edit_new_items have run
C10_Witness ==
    /\ registered = <<"move", "editor", "tagger">>
    /\ pc = "write"
    /\ RanFor("edit_new_items") = <<"tagger", "editor", "move">>

(***************************************************************************)
(* Reading the log of an add_item call.                                    *)
(***************************************************************************)
\* add_item is running (or has just raised or returned)
InAddItem == trace # <<>> /\ trace[1].hook = "pre_add"
AttachIdx == {i \in DOMAIN trace : trace[i].kind = "attach"}
\* positions of everything the flush did
FlushIdx ==
    {i \in DOMAIN trace :
        \/ trace[i].kind \in {"write", "write_error"}
        \/ trace[i].kind \in {"call", "impl"} /\ trace[i].hook \in HookNames}
\* the dispatcher is within the flush
InFlush == pc \in HookNames \cup {"write", "finalize"}

(***************************************************************************)
(* C11                                                                     *)
(***************************************************************************)
\* C11 as stated: the item is already pending in the transaction when the
\* pre_add implementations run.
C11_AttachedBeforePreAdd ==
    (InAddItem /\ pc = "pre_add") => estate[AddedItem] = "pending"

\* C11 (amended): add_item calls pre_add with the item, then attaches the
\* item, then flushes: the item is not in the session while the pre_add
\* implementations run, it is attached after the last of them, and
\* everything the flush does comes after the attachment.
C11_PreAddThenAttachThenFlush ==
    InAddItem =>
        /\ pc = "pre_add" => estate[AddedItem] = "transient" /\ AttachIdx = {}
        /\ Cardinality(AttachIdx) <= 1
        /\ \A i \in HookIdx({"pre_add"}), j \in AttachIdx : i < j
        /\ \A i \in AttachIdx, j \in FlushIdx : i < j
        /\ \A i \in AttachIdx : trace[i].items = {AddedItem}
        /\ InFlush => AttachIdx # {}
        /\ pc \in EditHooks \cup {"write"} => estate[AddedItem] = "pending"

\* the flush of an add_item hands the added item to edit_new_items after
\* both pre_add implementations have run
C11_Witness ==
    /\ InAddItem
    /\ JustCalled("edit_new_items")
    /\ AddedItem \in LastItems
    /\ RanFor("pre_add") = <<"tagger", "editor">>

C13_ConstraintSurfacesAddError ==
    (InAddItem /\ pc = "raised" /\ WriteErrorIdx # {}) =>
        /\ Surfaced = "AddError"
        /\ db[AddedItem] = NoRow

(***************************************************************************)
(* C14                                                                     *)
(***************************************************************************)
\* the running add_item was aborted: a pre_add implementation raised
\* AddAbortError, or the prompt returned no album
Aborted ==
    /\ InAddItem
    /\ \E i \in DOMAIN trace : trace[i].effect = "abort" \/ trace[i].kind = "declined"

\* C14: when an add is aborted before the write (a pre_add implementation
\* raises AddAbortError or the prompt returns no album), the item is not
\* attached to the session, nothing is flushed, no edit or process hook is
\* called, the store and the session are as add_item found them, and the
\* exception of an abort is AddAbortError, never the one of a failed write.
C14_AbortLeavesNoTrace ==
    [][/\ Aborted =>
            /\ pc \in {"raised", "returned"}
            /\ implq = <<>>
            /\ AttachIdx = {}
            /\ FlushIdx = {}
            /\ estate[AddedItem] = "transient"
            /\ wrote = NoWrite
            /\ pc = "raised" => Surfaced = "AddAbortError"
       /\ (InAddItem /\ ~Aborted /\ Aborted') => /\ db' = db
                                                  /\ estate' = estate
                                                  /\ files' = files
       /\ (InAddItem /\ pc = "raised" /\ WriteErrorIdx # {}) =>
            Surfaced # "AddAbortError"]_vars

\* the editor's pre_add raised AddAbortError while the session held
\* changes a flush would have written
C14_Witness ==
    /\ Aborted
    /\ pc = "raised"
    /\ RanFor("pre_add") = <<"tagger", "editor">>
    /\ SomethingToFlush

(***************************************************************************)
(* Adding a directory: _add_album and add_item of moe/plugins/add/add.py,  *)
(* and _add_album of the older moe/plugins/add.py.                         *)
(***************************************************************************)
\* what a file of the directory holds: a track with the tags of album "X"
\* or of album "Y", or something Track.from_tags cannot read
FileKinds == {"X", "Y", "junk"}

\* add/add.py:145-148, add.py:99-102: Track.from_tags raises TypeError or
\* UnreadableFileError for a file it cannot read
Converts(f) == f # "junk"

\* the directory listings of up to n files
RECURSIVE Listings(_)
Listings(n) ==
    IF n = 0 THEN {<<>>}
    ELSE LET shorter == Listings(n - 1)
         IN shorter \cup {Append(l, k) : l \in {x \in shorter : Len(x) = n - 1}, k \in FileKinds}

\* the dispatcher is not running
FlushUnused ==
    /\ estate = [e \in Entities |-> "transient"]
    /\ cur = [e \in Entities |-> "in"]
    /\ committed = [e \in Entities |-> "in"]
    /\ db = [e \in Entities |-> NoRow]
    /\ files = {}
    /\ registered = <<"move", "editor", "tagger">>
    /\ pc = "idle"
    /\ implq = <<>>
    /\ trace = <<>>
    /\ wrote = NoWrite
    /\ otherKind = "album"

DirInit ==
    /\ dirFiles \in Listings(MaxFiles)
    /\ version \in {"add/add.py", "add.py"}
    /\ dpc = "scan"
    /\ scanned = 0
    /\ album_tracks = <<>>
    /\ extra_paths = <<>>
    /\ album = NoAlbum
    /\ session = <<>>
    /\ FlushUnused
    /\ SanUnused
    /\ TplUnused
    /\ MvUnused
    /\ CodecUnused

\* add/add.py:144-148: one round of the rglob loop; a file that fails
\* conversion is kept as the path of an extra
ScanFile ==
    /\ version = "add/add.py"
    /\ dpc = "scan"
    /\ scanned < Len(dirFiles)
    /\ scanned' = scanned + 1
    /\ IF Converts(dirFiles[scanned + 1])
       THEN album_tracks' = Append(album_tracks, scanned + 1) /\ UNCHANGED extra_paths
       ELSE extra_paths' = Append(extra_paths, scanned + 1) /\ UNCHANGED album_tracks
    /\ UNCHANGED <<dirFiles, version, dpc, album, session, exceptDir>>

\* add.py:97-102: one round of the rglob loop of the older module; a file
\* that fails conversion is logged and left out
LegacyScanFile ==
    /\ version = "add.py"
    /\ dpc = "scan"
    /\ scanned < Len(dirFiles)
    /\ scanned' = scanned + 1
    /\ IF Converts(dirFiles[scanned + 1])
       THEN album_tracks' = Append(album_tracks, scanned + 1)
       ELSE UNCHANGED album_tracks
    /\ UNCHANGED <<dirFiles, version, dpc, extra_paths, album, session, exceptDir>>

\* add/add.py:157, add.py:110: every track carries the album attributes of
\* the first one; the mutant looks at the last track only
SameAlbumAsLast ==
    dirFiles[album_tracks[Len(album_tracks)]] = dirFiles[album_tracks[1]]
SameAlbum == \A i \in DOMAIN album_tracks : dirFiles[album_tracks[i]] = dirFiles[album_tracks[1]]

\* add/add.py:150-162, add.py:104-113: after the loop, AddError when no
\* track was found or the tracks disagree on the album
CheckTracks ==
    /\ dpc = "scan"
    /\ scanned = Len(dirFiles)
    /\ IF album_tracks = <<>> \/ ~SameAlbum
       THEN dpc' = "AddError" /\ UNCHANGED album
       ELSE /\ dpc' = IF version = "add/add.py" THEN "tracks" ELSE "add_to_db"
            /\ album' = [NoAlbum EXCEPT !.key = dirFiles[album_tracks[1]]]
    /\ UNCHANGED <<dirFiles, version, scanned, album_tracks, extra_paths, session, exceptDir>>

\* where _add_album goes once n of the tracks are on the album
AfterTrack(n) ==
    CASE n < Len(album_tracks) -> "tracks"
      [] extra_paths # <<>> -> "extras"
      [] OTHER -> "built"

\* add/add.py:163-165: album.tracks.append(track), one track a round
AppendTrack ==
    /\ dpc = "tracks"
    /\ album' = [album EXCEPT !.tracks = Append(@, album_tracks[Len(@) + 1])]
    /\ dpc' = AfterTrack(Len(album.tracks) + 1)
    /\ UNCHANGED <<dirFiles, version, scanned, album_tracks, extra_paths, session, exceptDir>>

\* add/add.py:167-169: Extra(extra_path, album), one path a round
AddExtra ==
    /\ dpc = "extras"
    /\ album' = [album EXCEPT !.extras = Append(@, extra_paths[Len(@) + 1])]
    /\ dpc' = IF Len(album.extras) + 1 < Len(extra_paths) THEN "extras" ELSE "built"
    /\ UNCHANGED <<dirFiles, version, scanned, album_tracks, extra_paths, session, exceptDir>>

\* add/add.py:115-125, when no pre_add implementation returns an album:
\* session.merge(add_album) puts the album with its tracks and extras into
\* the session
MergeAlbum ==
    /\ dpc = "built"
    /\ session' = <<"album">> \o album.tracks \o album.extras
    /\ dpc' = "done"
    /\ UNCHANGED <<dirFiles, version, scanned, album_tracks, extra_paths, album, exceptDir>>

\* where the older _add_album goes once n of the tracks have been through
\* add_to_db
LegacyAfterTrack(n) == IF n < Len(album_tracks) THEN "add_to_db" ELSE "done"

\* add.py:115-117: track.add_to_db(), one track a round
LegacyAddToDb ==
    /\ dpc = "add_to_db"
    /\ album' = [album EXCEPT !.tracks = Append(@, album_tracks[Len(@) + 1])]
    /\ session' = Append(session, album_tracks[Len(album.tracks) + 1])
    /\ dpc' = LegacyAfterTrack(Len(album.tracks) + 1)
    /\ UNCHANGED <<dirFiles, version, scanned, album_tracks, extra_paths, exceptDir>>

\* add.py:118-119: add_to_db raises DbDupTrackPathError, which is logged;
\* the loop goes on with the next track
LegacyAddToDbDuplicate ==
    /\ dpc = "add_to_db"
    /\ album' = [album EXCEPT !.tracks = Append(@, album_tracks[Len(@) + 1])]
    /\ dpc' = LegacyAfterTrack(Len(album.tracks) + 1)
    /\ UNCHANGED <<dirFiles, version, scanned, album_tracks, extra_paths, session, exceptDir>>

DirNext ==
    \/ ScanFile
    \/ LegacyScanFile
    \/ CheckTracks
    \/ AppendTrack
    \/ AddExtra
    \/ MergeAlbum
    \/ LegacyAddToDb
    \/ LegacyAddToDbDuplicate

DirSpec == DirInit /\ [][DirNext]_vars

(***************************************************************************)
(* Reading a directory add.                                                *)
(***************************************************************************)
\* the files of the directory that convert to a Track, and the others
ConvertibleFiles == {i \in DOMAIN dirFiles : dirFiles[i] # "junk"}
OtherFiles == DOMAIN dirFiles \ ConvertibleFiles
\* two converted files carry different album attributes
MismatchedAlbums == \E i, j \in ConvertibleFiles : dirFiles[i] # dirFiles[j]
Range(q) == {q[i] : i \in DOMAIN q}
\* q lists exactly the elements of S, each once
ListsOnce(q, S) == Range(q) = S /\ Len(q) = Cardinality(S)

(***************************************************************************)
(* C15                                                                     *)
(***************************************************************************)
\* C15: adding a directory ends in AddError exactly when no file converts
\* or the converted files disagree on the album, and then neither the
\* session nor an album holds anything of the directory; whatever reaches an
\* album or the session comes from a directory whose tracks agree.
C15_DirectoryAddAtomic ==
    /\ dpc = "AddError" =>
          /\ ConvertibleFiles = {} \/ MismatchedAlbums
          /\ session = <<>>
          /\ album = NoAlbum
    /\ (dpc # "scan" /\ (ConvertibleFiles = {} \/ MismatchedAlbums)) => dpc = "AddError"
    /\ dpc = "scan" => session = <<>> /\ album = NoAlbum
    /\ (session # <<>> \/ album # NoAlbum) =>
          /\ ConvertibleFiles # {}
          /\ ~MismatchedAlbums

\* a directory whose first and last track agree while one between them
\* does not, and which holds an unreadable file, ended in AddError
C15_Witness ==
    /\ dpc = "AddError"
    /\ Len(album_tracks) = 3
    /\ dirFiles[album_tracks[1]] = dirFiles[album_tracks[3]]
    /\ OtherFiles # {}

(***************************************************************************)
(* C16                                                                     *)
(***************************************************************************)
\* C16: when a directory add succeeds, the album holds every file of the
\* directory exactly once: each file that converts as a track, each other
\* file as an extra.
C16_EveryFileOnTheAlbum ==
    dpc = "done" =>
        /\ ListsOnce(album.tracks, ConvertibleFiles)
        /\ ListsOnce(album.extras, OtherFiles)

(***************************************************************************)
(* Sanitizing a path part: _sanitize_path_part of                          *)
(* moe/plugins/move/move_core.py.  A string is a sequence of characters.   *)
(***************************************************************************)
\* the characters of the strings tried: a letter, the dot, a space and a
\* newline (both whitespace), and two of the reserved characters
Chars == {"a", ".", " ", "\n", "/", "?"}
\* move_core.py:171  [<>:"\?\*\|\\/]; the mutant forgets the slash
ReservedNoSlash == {"<", ">", ":", "\"", "?", "*", "|", "\\"}
Reserved == {"<", ">", ":", "\"", "?", "*", "|", "\\", "/"}
\* the characters \s matches
Whitespace == {" ", "\n", "\t", "\r"}

\* the strings of up to n characters of C
RECURSIVE Strings(_, _)
Strings(C, n) ==
    IF n = 0 THEN {<<>>}
    ELSE LET shorter == Strings(C, n - 1)
         IN shorter \cup {Append(t, c) : t \in {x \in shorter : Len(x) = n - 1}, c \in C}

\* move_core.py:170  re.sub(r"^\.", "_", s)
SubLeadingDot(s) == IF s # <<>> /\ s[1] = "." THEN <<"_">> \o Tail(s) ELSE s

\* move_core.py:171  every reserved character becomes "_"
SubReserved(s) == [i \in DOMAIN s |-> IF s[i] \in Reserved THEN "_" ELSE s[i]]

\* "$" matches at the end of the string and before a newline that ends it
AtDollar(s, i) == i = Len(s) \/ (i = Len(s) - 1 /\ s[Len(s)] = "\n")

\* move_core.py:172  re.sub(r"\.$", "_", s)
SubTrailingDot(s) == [i \in DOMAIN s |-> IF s[i] = "." /\ AtDollar(s, i) THEN "_" ELSE s[i]]

\* move_core.py:173  re.sub(r"\s+$", "", s): the whitespace the string ends
\* with is removed
RECURSIVE SubTrailingWhitespace(_)
SubTrailingWhitespace(s) ==
    IF s # <<>> /\ s[Len(s)] \in Whitespace
    THEN SubTrailingWhitespace(SubSeq(s, 1, Len(s) - 1))
    ELSE s

\* move_core.py:169-174  PATH_REPLACE_CHARS, in the order of the dict
NumRules == 4
Replace(r, s) == CASE r = 1 -> SubLeadingDot(s)
                   [] r = 2 -> SubReserved(s)
                   [] r = 3 -> SubTrailingDot(s)
                   [] OTHER -> SubTrailingWhitespace(s)

\* move_core.py:176-179  the whole function
SanitizePathPart(s) == Replace(4, Replace(3, Replace(2, Replace(1, s))))

SanInit ==
    /\ raw \in Strings(Chars, MaxPartLen)
    /\ path_part = raw
    /\ rule = 1
    /\ FlushUnused
    /\ DirUnused
    /\ TplUnused
    /\ MvUnused
    /\ CodecUnused

\* move_core.py:176-177  one round of the loop
SanitizeStep ==
    /\ rule \in 1..NumRules
    /\ path_part' = Replace(rule, path_part)
    /\ rule' = rule + 1
    /\ UNCHANGED <<raw, exceptSan>>

SanNext == SanitizeStep

SanSpec == SanInit /\ [][SanNext]_vars

(***************************************************************************)
(* C18                                                                     *)
(***************************************************************************)
\* C18: whatever string _sanitize_path_part is given, the path part it
\* returns contains no "/", does not start with "." and does not end with
\* whitespace.
C18_SanitizedPart ==
    rule = NumRules + 1 =>
        /\ \A i \in DOMAIN path_part : path_part[i] # "/"
        /\ path_part # <<>> => path_part[1] # "."
        /\ path_part # <<>> => path_part[Len(path_part)] \notin Whitespace
        /\ path_part = SanitizePathPart(raw)

\* a part that started with a dot, held a slash and ended with a dot
\* before a newline has been sanitized
C18_Witness ==
    /\ rule = NumRules + 1
    /\ Len(raw) = MaxPartLen
    /\ raw[1] = "."
    /\ raw[2] = "/"
    /\ raw[Len(raw) - 1] = "."
    /\ raw[Len(raw)] = "\n"
    /\ path_part = <<"_", "_">> \o [i \in 1..(Len(raw) - 4) |-> raw[i + 2]] \o <<"_">>

(***************************************************************************)
(* Evaluating a path template: _eval_path_template and _lazy_fstr_item of  *)
(* moe/plugins/move/move_core.py.  A template is a sequence of characters  *)
(* and of replacement fields.                                              *)
(***************************************************************************)
\* the replacement fields of the album template (move_core.py:28)
AlbumFields == {"{album.artist}", "{album.title}", "{album.year}"}

\* the templates tried: the default album template, and templates with an
\* empty part in the middle, at the start and at the end, and with one part
DefaultAlbumPath ==
    <<"{album.artist}", "/", "{album.title}", " ", "(", "{album.year}", ")">>
Templates ==
    {DefaultAlbumPath,
     <<"{album.artist}", "/", "{album.title}">>,
     <<"{album.artist}", "/", "/", "{album.title}">>,
     <<"/", "{album.artist}", "/">>,
     <<"{album.artist}", "{album.title}">>}

\* the characters of the field values tried
FieldChars == {"a", "/", " ", "."}
Year1999 == <<"1", "9", "9", "9">>
Albums ==
    {[f \in AlbumFields |->
        CASE f = "{album.artist}" -> ar
          [] f = "{album.title}" -> ti
          [] OTHER -> Year1999] :
     ar \in Strings(FieldChars, MaxFieldLen), ti \in Strings(FieldChars, MaxFieldLen)}
\* the album with artist A/C, title Best?, year 1999
AlbumBest ==
    [f \in AlbumFields |->
        CASE f = "{album.artist}" -> <<"A", "/", "C">>
          [] f = "{album.title}" -> <<"B", "e", "s", "t", "?">>
          [] OTHER -> Year1999]

\* move_core.py:109  template.split("/")
RECURSIVE Split(_)
Split(t) ==
    IF \A i \in DOMAIN t : t[i] # "/"
    THEN <<t>>
    ELSE LET i == CHOOSE k \in DOMAIN t : t[k] = "/" /\ \A j \in 1..(k - 1) : t[j] # "/"
         IN <<SubSeq(t, 1, i - 1)>> \o Split(SubSeq(t, i + 1, Len(t)))

\* move_core.py:120-153  the f-string of one template part, evaluated for
\* the item: every replacement field gives the value of the field
RECURSIVE LazyFstrItem(_, _)
LazyFstrItem(part, item) ==
    IF part = <<>> THEN <<>>
    ELSE (IF Head(part) \in DOMAIN item THEN item[Head(part)] ELSE <<Head(part)>>)
            \o LazyFstrItem(Tail(part), item)

\* move_core.py:117  "/".join(sanitized_parts)
RECURSIVE Join(_)
Join(parts) ==
    IF parts = <<>> THEN <<>>
    ELSE IF Len(parts) = 1 THEN parts[1]
    ELSE parts[1] \o <<"/">> \o Join(Tail(parts))

TplInit ==
    /\ template \in Templates
    /\ lib_item \in Albums \cup {AlbumBest}
    /\ part_no = 0
    /\ sanitized_parts = <<>>
    /\ evaluated = NotEvaluated
    /\ FlushUnused
    /\ DirUnused
    /\ SanUnused
    /\ MvUnused
    /\ CodecUnused

\* move_core.py:111-115  one round of the loop: the part is evaluated and
\* sanitized, and kept unless it is empty; the mutant keeps it all the same
EvalPartKeepsEmpty ==
    /\ evaluated = NotEvaluated
    /\ part_no < Len(Split(template))
    /\ part_no' = part_no + 1
    /\ LET sanitized_part ==
              SanitizePathPart(LazyFstrItem(Split(template)[part_no + 1], lib_item))
       IN sanitized_parts' = Append(sanitized_parts, sanitized_part)
    /\ UNCHANGED <<template, lib_item, evaluated, exceptTpl>>

EvalPart ==
    /\ evaluated = NotEvaluated
    /\ part_no < Len(Split(template))
    /\ part_no' = part_no + 1
    /\ LET sanitized_part ==
              SanitizePathPart(LazyFstrItem(Split(template)[part_no + 1], lib_item))
       IN sanitized_parts' = IF sanitized_part # <<>>
                             THEN Append(sanitized_parts, sanitized_part)
                             ELSE sanitized_parts
    /\ UNCHANGED <<template, lib_item, evaluated, exceptTpl>>

\* move_core.py:117
ReturnPath ==
    /\ evaluated = NotEvaluated
    /\ part_no = Len(Split(template))
    /\ evaluated' = Join(sanitized_parts)
    /\ UNCHANGED <<template, lib_item, part_no, sanitized_parts, exceptTpl>>

TplNext == EvalPart \/ ReturnPath

TplSpec == TplInit /\ [][TplNext]_vars

(***************************************************************************)
(* C19                                                                     *)
(***************************************************************************)
\* the parts of a path: none for the empty path
Segments(path) == IF path = <<>> THEN <<>> ELSE Split(path)

\* C19: the evaluated path is the non-empty sanitized parts joined by "/":
\* it has no empty segment (no "//", no "/" at either end), at most as many
\* segments as the template has parts, each of them the sanitized value of
\* one template part, so that a "/" of a field value adds no level; the
\* default album template gives A_C/Best_ (1999) for artist A/C, title
\* Best?, year 1999.
C19_EvaluatedPath ==
    evaluated # NotEvaluated =>
        /\ \A i \in DOMAIN Segments(evaluated) : Segments(evaluated)[i] # <<>>
        /\ Len(Segments(evaluated)) <= Len(Split(template))
        /\ Segments(evaluated) = sanitized_parts
        /\ \A i \in DOMAIN sanitized_parts :
              \E k \in DOMAIN Split(template) :
                  sanitized_parts[i] = SanitizePathPart(LazyFstrItem(Split(template)[k], lib_item))
        /\ (template = DefaultAlbumPath /\ lib_item = AlbumBest) =>
              evaluated = <<"A", "_", "C", "/", "B", "e", "s", "t", "_", " ",
                            "(", "1", "9", "9", "9", ")">>

\* a template with an empty part in the middle was evaluated for an album
\* whose artist holds a "/" and whose title sanitizes to nothing
C19_Witness ==
    /\ evaluated # NotEvaluated
    /\ template = <<"{album.artist}", "/", "/", "{album.title}">>
    /\ lib_item["{album.artist}"] = <<"a", "/">>
    /\ lib_item["{album.title}"] = <<" ">>
    /\ evaluated = <<"a", "_">>

(***************************************************************************)
(* Formatting item paths: fmt_item_path of moe/plugins/move/move_core.py.  *)
(* A path is the sequence of its names, a name a sequence of characters.   *)
(***************************************************************************)
Parent(p) == SubSeq(p, 1, Len(p) - 1)
Name(p) == p[Len(p)]
\* p lies below directory d
IsUnder(p, d) == Len(p) > Len(d) /\ SubSeq(p, 1, Len(d)) = d
\* Path.parents: the parent first, the root last
Parents(p) == [i \in 1..Len(p) |-> SubSeq(p, 1, Len(p) - i)]

\* Path.suffix: from the last dot of the name on, unless that dot starts or
\* ends the name
Suffix(name) ==
    LET dots == {i \in DOMAIN name : name[i] = "."}
    IN IF dots = {} THEN <<>>
       ELSE LET i == CHOOSE k \in dots : \A j \in dots : j <= k
            IN IF 1 < i /\ i < Len(name) THEN SubSeq(name, i, Len(name)) ELSE <<>>

\* move_core.py:110-115  the sanitized parts that are kept
RECURSIVE SanitizedParts(_, _)
SanitizedParts(parts, item) ==
    IF parts = <<>> THEN <<>>
    ELSE LET sanitized_part == SanitizePathPart(LazyFstrItem(Head(parts), item))
         IN (IF sanitized_part # <<>> THEN <<sanitized_part>> ELSE <<>>)
               \o SanitizedParts(Tail(parts), item)

\* move_core.py:98-117  _eval_path_template
EvalPathTemplate(t, item) == Join(SanitizedParts(Split(t), item))

\* move_core.py:29-33  the default templates of extras and tracks; "{disc}"
\* stands for {f'Disc {track.disc:02}' if track.disc_total > 1 else ''}
DefaultExtraPath == <<"{extra.path.name}">>
DefaultTrackPath ==
    <<"{disc}", "/", "{track.track_num:02}", " ", "-", " ", "{track.title}",
      "{track.path.suffix}">>

\* config.settings.library_path
LibraryPath == <<(<<"l", "i", "b">>)>>

\* the album of the library: artist A, title T, year 1999
TheAlbum ==
    [f \in AlbumFields |->
        CASE f = "{album.artist}" -> <<"A">>
          [] f = "{album.title}" -> <<"T">>
          [] OTHER -> Year1999]
\* its track, number 1 of a single disc, title t, at path p
TheTrack(p) ==
    [f \in {"{disc}", "{track.track_num:02}", "{track.title}", "{track.path.suffix}"} |->
        CASE f = "{disc}" -> <<>>
          [] f = "{track.track_num:02}" -> <<"0", "1">>
          [] f = "{track.title}" -> <<"t">>
          [] OTHER -> Suffix(Name(p))]
\* its extra, at path p
TheExtra(p) == [f \in {"{extra.path.name}"} |-> Name(p)]

\* a relative path string as names: library_path / album_path
AsNames(str) == IF str = <<>> THEN <<>> ELSE Split(str)

\* move_core.py:74-79
FmtAlbumPath == LibraryPath \o AsNames(EvalPathTemplate(DefaultAlbumPath, TheAlbum))
\* move_core.py:82-87
FmtExtraPath(p) == FmtAlbumPath \o AsNames(EvalPathTemplate(DefaultExtraPath, TheExtra(p)))
\* move_core.py:90-95
FmtTrackPath(p) == FmtAlbumPath \o AsNames(EvalPathTemplate(DefaultTrackPath, TheTrack(p)))

\* move_core.py:54-71  fmt_item_path, for an item whose path is p
FmtItemPath(i, p) ==
    CASE i = "album" -> FmtAlbumPath
      [] i = "extra" -> FmtExtraPath(p)
      [] i = "track" -> FmtTrackPath(p)

(***************************************************************************)
(* move_item on a file system: one album of the library with at most one   *)
(* track and one extra, moved by consecutive calls.  dirs are the          *)
(* directories that exist, fsfiles maps the path of each file to its       *)
(* content, item_path is the path attribute of each item.  returned logs   *)
(* every call: the item, the paths when it was called, the file system and *)
(* the paths when an album's files had been moved, and when it returned.    *)
(***************************************************************************)
Root == <<>>
\* a directory and all its ancestors: what mkdir(parents=True) leaves
WithParents(d) == {SubSeq(d, 1, k) : k \in 0..Len(d)}
\* the entries of directory d
Entries(d, ds, fs) == {p \in ds \cup DOMAIN fs : p # Root /\ Parent(p) = d}
\* Path.rmdir succeeds on an existing empty directory other than the root
CanRmdir(d, ds, fs) == d \in ds /\ d # Root /\ Entries(d, ds, fs) = {}
Rmdir(d, ds, fs) == IF CanRmdir(d, ds, fs) THEN ds \ {d} ELSE ds

\* names of the model's directories and files
InDir == <<"i", "n">>
AlbDir == <<"a", "l", "b">>
CdDir == <<"c", "d">>
StrayName == <<"z">>
\* where the album is before the first call: outside the library, or
\* already where the templates put it
OldAlbumDirs == {<<InDir, AlbDir>>, FmtAlbumPath}
\* the directories between the album directory and the track
RECURSIVE Nested(_)
Nested(n) == IF n = 0 THEN <<>> ELSE <<CdDir>> \o Nested(n - 1)
\* file names of the track: a plain one, the one the template gives, and one
\* whose suffix ends in whitespace
TrackNames ==
    {<<"x", ".", "m">>, <<"0", "1", " ", "-", " ", "t", ".", "m">>, <<"x", ".", " ">>}
\* file names of the extra
ExtraNames ==
    Strings({"a", ".", " "}, MaxNameLen) \ {<<>>, <<".">>, <<".", ".">>}

Items == {"album", "track", "extra"}

Snapshot == [dirs |-> dirs, fsfiles |-> fsfiles, item_path |-> item_path]

MvInit ==
    /\ \E old \in OldAlbumDirs, owned \in SUBSET {"track", "extra"},
          depth \in 0..MaxDepth, tname \in TrackNames, ename \in ExtraNames,
          stray \in BOOLEAN :
          /\ "track" \notin owned => depth = 0 /\ tname = <<"x", ".", "m">>
          /\ "extra" \notin owned => ename = <<"a">>
          /\ item_path =
                [i \in {"album"} \cup owned |->
                    CASE i = "album" -> old
                      [] i = "track" -> old \o Nested(depth) \o <<tname>>
                      [] OTHER -> old \o <<ename>>]
          /\ fsfiles =
                [p \in {item_path[i] : i \in owned}
                        \cup (IF stray THEN {old \o <<StrayName>>} ELSE {}) |->
                    IF \E i \in owned : item_path[i] = p
                    THEN CHOOSE i \in owned : item_path[i] = p
                    ELSE "stray"]
          /\ dirs = WithParents(LibraryPath)
                       \cup UNION {WithParents(Parent(p)) : p \in DOMAIN fsfiles}
                       \cup WithParents(old)
    /\ mpc = "idle"
    /\ call_item = "none"
    /\ todo = <<>>
    /\ old_album_dir = <<>>
    /\ visit = <<>>
    /\ returned = <<>>
    /\ FlushUnused
    /\ DirUnused
    /\ SanUnused
    /\ TplUnused
    /\ CodecUnused

\* album.tracks, then album.extras
FileItemsOf(ip) ==
    (IF "track" \in DOMAIN ip THEN <<"track">> ELSE <<>>)
        \o (IF "extra" \in DOMAIN ip THEN <<"extra">> ELSE <<>>)

\* move_core.py:235-244 with 247-260: the call, and for an album the
\* destination directory and the album's new path
MoveItem(i) ==
    /\ mpc = "idle"
    /\ Len(returned) < MaxCalls
    /\ i \in DOMAIN item_path
    /\ call_item' = i
    /\ returned' = Append(returned, [item |-> i, called |-> item_path,
                                     done |-> FALSE, moved |-> Snapshot,
                                     after |-> Snapshot])
    /\ IF i = "album"
       THEN LET dest == FmtItemPath("album", item_path["album"])
            IN /\ old_album_dir' = item_path["album"]
               /\ IF item_path["album"] # dest
                  THEN /\ dirs' = dirs \cup WithParents(dest)
                       /\ item_path' = [item_path EXCEPT !["album"] = dest]
                  ELSE UNCHANGED <<dirs, item_path>>
               /\ todo' = FileItemsOf(item_path)
       ELSE /\ todo' = <<i>>
            /\ UNCHANGED <<old_album_dir, dirs, item_path>>
    /\ mpc' = "file_item"
    /\ UNCHANGED <<fsfiles, visit, exceptMv>>

\* move_core.py:283-285  the destination is the item's path: return
FileItemInPlace ==
    /\ mpc = "file_item"
    /\ todo # <<>>
    /\ FmtItemPath(Head(todo), item_path[Head(todo)]) = item_path[Head(todo)]
    /\ todo' = Tail(todo)
    /\ UNCHANGED <<dirs, fsfiles, item_path, mpc, call_item, old_album_dir, visit,
                   returned, exceptMv>>

\* move_core.py:289  dest.parent.mkdir(parents=True, exist_ok=True)
MkdirDestParent ==
    /\ mpc = "file_item"
    /\ todo # <<>>
    /\ LET dest == FmtItemPath(Head(todo), item_path[Head(todo)])
       IN /\ dest # item_path[Head(todo)]
          /\ dirs' = dirs \cup WithParents(Parent(dest))
    /\ mpc' = "replace"
    /\ UNCHANGED <<fsfiles, item_path, call_item, todo, old_album_dir, visit,
                   returned, exceptMv>>

\* move_core.py:290  item.path.replace(dest): the file is renamed, a file
\* at the destination is overwritten
PathReplace ==
    /\ mpc = "replace"
    /\ LET src == item_path[Head(todo)]
           dest == FmtItemPath(Head(todo), src)
       IN fsfiles' = [p \in (DOMAIN fsfiles \ {src}) \cup {dest} |->
                         IF p = dest THEN fsfiles[src] ELSE fsfiles[p]]
    /\ mpc' = "set_path"
    /\ UNCHANGED <<dirs, item_path, call_item, todo, old_album_dir, visit,
                   returned, exceptMv>>

\* move_core.py:292  item.path = dest
SetItemPath ==
    /\ mpc = "set_path"
    /\ item_path' = [item_path EXCEPT
                        ![Head(todo)] = FmtItemPath(Head(todo), item_path[Head(todo)])]
    /\ todo' = Tail(todo)
    /\ mpc' = "file_item"
    /\ UNCHANGED <<dirs, fsfiles, call_item, old_album_dir, visit, returned,
                   exceptMv>>

\* what old_album_dir.rglob("*") yields: every entry below the directory,
\* a directory before its own entries; nothing if the directory is gone
RECURSIVE PreOrder(_)
PreOrder(S) ==
    IF S = {} THEN <<>>
    ELSE LET p == CHOOSE x \in S : \A y \in S : Len(x) <= Len(y)
         IN <<p>> \o PreOrder(S \ {p})
Rglob(d, ds, fs) ==
    IF d \notin ds THEN <<>>
    ELSE PreOrder({p \in ds \cup DOMAIN fs : IsUnder(p, d)})

\* move_core.py:269  the loop over the old directory's tree starts
StartCleanup ==
    /\ mpc = "file_item"
    /\ todo = <<>>
    /\ call_item = "album"
    /\ visit' = Rglob(old_album_dir, dirs, fsfiles)
    /\ returned' = [returned EXCEPT ![Len(returned)].moved = Snapshot]
    /\ mpc' = "rglob"
    /\ UNCHANGED <<dirs, fsfiles, item_path, call_item, todo, old_album_dir,
                   exceptMv>>

\* move_core.py:269-271  old_child.rmdir() under suppress(OSError): a file, a
\* directory that is not empty and a directory that is gone are skipped.
\* The mutant stops the loop at the first entry it cannot remove.
CleanupChildStopsAtFailure ==
    /\ mpc = "rglob"
    /\ visit # <<>>
    /\ dirs' = Rmdir(Head(visit), dirs, fsfiles)
    /\ visit' = IF CanRmdir(Head(visit), dirs, fsfiles) THEN Tail(visit) ELSE <<>>
    /\ UNCHANGED <<fsfiles, item_path, mpc, call_item, todo, old_album_dir,
                   returned, exceptMv>>
CleanupChild ==
    /\ mpc = "rglob"
    /\ visit # <<>>
    /\ dirs' = Rmdir(Head(visit), dirs, fsfiles)
    /\ visit' = Tail(visit)
    /\ UNCHANGED <<fsfiles, item_path, mpc, call_item, todo, old_album_dir,
                   returned, exceptMv>>

\* move_core.py:272-274  old_album_dir.rmdir(), then the loop over
\* old_album_dir.parents starts
CleanupOldDir ==
    /\ mpc = "rglob"
    /\ visit = <<>>
    /\ dirs' = Rmdir(old_album_dir, dirs, fsfiles)
    /\ visit' = Parents(old_album_dir)
    /\ mpc' = "parents"
    /\ UNCHANGED <<fsfiles, item_path, call_item, todo, old_album_dir, returned,
                   exceptMv>>

\* move_core.py:274-276  old_parent.rmdir() under suppress(OSError)
CleanupParent ==
    /\ mpc = "parents"
    /\ visit # <<>>
    /\ dirs' = Rmdir(Head(visit), dirs, fsfiles)
    /\ visit' = Tail(visit)
    /\ UNCHANGED <<fsfiles, item_path, mpc, call_item, todo, old_album_dir,
                   returned, exceptMv>>

\* move_item returns: after the parents of an album, after the one file
\* item of a track or an extra
MoveItemReturns ==
    /\ \/ mpc = "parents" /\ visit = <<>>
       \/ mpc = "file_item" /\ todo = <<>> /\ call_item # "album"
    /\ returned' = [returned EXCEPT ![Len(returned)] =
                        [@ EXCEPT !.done = TRUE, !.after = Snapshot]]
    /\ mpc' = "idle"
    /\ call_item' = "none"
    /\ old_album_dir' = <<>>
    /\ UNCHANGED <<dirs, fsfiles, item_path, todo, visit, exceptMv>>

MvNext ==
    \/ \E i \in Items : MoveItem(i)
    \/ FileItemInPlace
    \/ MkdirDestParent
    \/ PathReplace
    \/ SetItemPath
    \/ StartCleanup
    \/ CleanupChild
    \/ CleanupOldDir
    \/ CleanupParent
    \/ MoveItemReturns

MoveSpec == MvInit /\ [][MvNext]_vars

(***************************************************************************)
(* Claims about move_item.                                                 *)
(***************************************************************************)
\* the k-th call has returned and repeats the call before it
Repeats(k) ==
    /\ k \in 2..Len(returned)
    /\ returned[k].done
    /\ returned[k].item = returned[k - 1].item

\* C17: move_item is idempotent: a call that immediately follows a call on
\* the same item leaves every directory, every file and every path as the
\* first call left them.
C17_MoveItemIdempotent ==
    \A k \in DOMAIN returned : Repeats(k) => returned[k].after = returned[k - 1].after

\* the returned calls
ReturnedCalls == {k \in DOMAIN returned : returned[k].done}
\* where the item of call k was when the call was made: the directory of an
\* album, the directory holding the file of a track or an extra
OldLocation(k) ==
    IF returned[k].item = "album"
    THEN returned[k].called["album"]
    ELSE Parent(returned[k].called[returned[k].item])
\* directory d exists and has no entry in snapshot sn
LeftEmpty(d, sn) == d \in sn.dirs /\ Entries(d, sn.dirs, sn.fsfiles) = {}

\* C20 as stated: for every kind of item, when move_item has returned, no
\* directory on the way up from the item's old location is left empty.
C20_EveryVariantCleansUp ==
    \A k \in ReturnedCalls :
        \A d \in WithParents(OldLocation(k)) \ {Root} : ~LeftEmpty(d, returned[k].after)

\* C20 amended: move_item on a track or an extra removes no directory.  On
\* an album, once the files are moved, every directory at, below or above
\* the old album directory that is empty at that moment is gone when the call
\* returns, the old directory and its ancestors are then gone or not empty,
\* and nothing else changes: no file is touched, no directory is created,
\* and every directory removed lies at, below or above the old directory.
C20_AlbumCleansUp ==
    /\ \A k \in ReturnedCalls :
          LET old == returned[k].called["album"]
              m == returned[k].moved
              a == returned[k].after
          IN returned[k].item = "album" =>
                /\ \A d \in m.dirs \ {Root} :
                      (d = old \/ IsUnder(d, old) \/ IsUnder(old, d)) /\ LeftEmpty(d, m)
                          => d \notin a.dirs
                /\ \A d \in WithParents(old) \ {Root} : ~LeftEmpty(d, a)
                /\ a.fsfiles = m.fsfiles
                /\ a.dirs \subseteq m.dirs
                /\ \A d \in m.dirs \ a.dirs : d = old \/ IsUnder(d, old) \/ IsUnder(old, d)
    /\ call_item \in {"track", "extra"} => returned[Len(returned)].moved.dirs \subseteq dirs

\* an album call has returned that removed a leftover directory and skipped
\* one that was not empty; a track call has returned that left the track's
\* old directory empty
C20_Witness ==
    /\ \E k \in ReturnedCalls :
          /\ returned[k].item = "album"
          /\ returned[k].moved.dirs \ returned[k].after.dirs # {}
          /\ \E d \in returned[k].after.dirs : IsUnder(d, returned[k].called["album"])
    /\ \E k \in ReturnedCalls :
          /\ returned[k].item = "track"
          /\ LeftEmpty(OldLocation(k), returned[k].after)

(***************************************************************************)
(* C26                                                                     *)
(***************************************************************************)
\* C26: whatever string _sanitize_path_part is given, the path part it
\* returns does not end with ".".
C26_NoTrailingDot ==
    rule = NumRules + 1 => path_part = <<>> \/ path_part[Len(path_part)] # "."

(***************************************************************************)
(* C27, C28                                                                *)
(***************************************************************************)
\* the calls on the album that have returned
AlbumCalls == {k \in ReturnedCalls : returned[k].item = "album"}

\* C27: when move_item on an album has returned, no directory at or below
\* the album's old directory is left empty, however deep the old tree was.
C27_NoEmptyLeftover ==
    \A k \in AlbumCalls :
        \A d \in returned[k].after.dirs :
            d = OldLocation(k) \/ IsUnder(d, OldLocation(k))
                => ~LeftEmpty(d, returned[k].after)

\* C28: when move_item on an album has returned, the directory at the
\* album's path exists, and every file is in a directory that exists.
C28_NewLocationKept ==
    \A k \in AlbumCalls :
        LET a == returned[k].after
        IN /\ a.item_path["album"] \in a.dirs
           /\ \A f \in DOMAIN a.fsfiles : Parent(f) \in a.dirs

(***************************************************************************)
(* copy_item and move_item together, on the same file system, with file    *)
(* operations that may raise and with an item that is neither an album, a  *)
(* track nor an extra.                                                     *)
(***************************************************************************)
\* the kind move_core.py has no branch for
UnknownKind == "other"

\* file names of the extra in this specification
OpExtraNames == {<<"a">>, <<"a", ".", " ">>}
\* directories between the album directory and the track
OpDepths == {0, 1}

OpInit ==
    /\ \E old \in OldAlbumDirs, owned \in SUBSET {"track", "extra"},
          depth \in OpDepths, tname \in TrackNames, ename \in OpExtraNames,
          stray \in BOOLEAN :
          /\ "track" \notin owned => depth = 0 /\ tname = <<"x", ".", "m">>
          /\ "extra" \notin owned => ename = <<"a">>
          /\ item_path =
                [i \in {"album"} \cup owned |->
                    CASE i = "album" -> old
                      [] i = "track" -> old \o Nested(depth) \o <<tname>>
                      [] OTHER -> old \o <<ename>>]
          /\ fsfiles =
                [p \in {item_path[i] : i \in owned}
                        \cup (IF stray THEN {old \o <<StrayName>>} ELSE {}) |->
                    IF \E i \in owned : item_path[i] = p
                    THEN CHOOSE i \in owned : item_path[i] = p
                    ELSE "stray"]
          /\ dirs = WithParents(LibraryPath)
                       \cup UNION {WithParents(Parent(p)) : p \in DOMAIN fsfiles}
                       \cup WithParents(old)
    /\ mpc = "idle"
    /\ call_item = "none"
    /\ todo = <<>>
    /\ old_album_dir = <<>>
    /\ visit = <<>>
    /\ returned = <<>>
    /\ FlushUnused
    /\ DirUnused
    /\ SanUnused
    /\ TplUnused
    /\ CodecUnused

\* move_core.py:185-194 with 197-205: the call, and for an album the
\* destination directory and the album's new path
CopyItem(i) ==
    /\ mpc = "idle"
    /\ Len(returned) < MaxCalls
    /\ i \in DOMAIN item_path
    /\ call_item' = i
    /\ returned' = Append(returned, [item |-> i, called |-> item_path,
                                     done |-> FALSE, moved |-> Snapshot,
                                     after |-> Snapshot])
    /\ IF i = "album"
       THEN LET dest == FmtItemPath("album", item_path["album"])
            IN /\ IF item_path["album"] # dest
                  THEN /\ dirs' = dirs \cup WithParents(dest)
                       /\ item_path' = [item_path EXCEPT !["album"] = dest]
                  ELSE UNCHANGED <<dirs, item_path>>
               /\ todo' = FileItemsOf(item_path)
       ELSE /\ todo' = <<i>>
            /\ UNCHANGED <<dirs, item_path>>
    /\ mpc' = "copy_file_item"
    /\ UNCHANGED <<fsfiles, old_album_dir, visit, exceptMv>>

\* move_core.py:218-222  the destination is the item's path: return.  The
\* mutant goes on to shutil.copyfile, which raises SameFileError.
CopyFileItemInPlaceCopies ==
    /\ mpc = "copy_file_item"
    /\ todo # <<>>
    /\ FmtItemPath(Head(todo), item_path[Head(todo)]) = item_path[Head(todo)]
    /\ mpc' = "raised"
    /\ UNCHANGED <<dirs, fsfiles, item_path, call_item, todo, old_album_dir, visit,
                   returned, exceptMv>>
CopyFileItemInPlace ==
    /\ mpc = "copy_file_item"
    /\ todo # <<>>
    /\ FmtItemPath(Head(todo), item_path[Head(todo)]) = item_path[Head(todo)]
    /\ todo' = Tail(todo)
    /\ UNCHANGED <<dirs, fsfiles, item_path, mpc, call_item, old_album_dir, visit,
                   returned, exceptMv>>

\* move_core.py:224  dest.parent.mkdir(parents=True, exist_ok=True)
CopyMkdirDestParent ==
    /\ mpc = "copy_file_item"
    /\ todo # <<>>
    /\ LET dest == FmtItemPath(Head(todo), item_path[Head(todo)])
       IN /\ dest # item_path[Head(todo)]
          /\ dirs' = dirs \cup WithParents(Parent(dest))
    /\ mpc' = "copyfile"
    /\ UNCHANGED <<fsfiles, item_path, call_item, todo, old_album_dir, visit,
                   returned, exceptMv>>

\* move_core.py:225  shutil.copyfile(item.path, dest): the destination gets
\* the content, the source stays
Copyfile ==
    /\ mpc = "copyfile"
    /\ LET src == item_path[Head(todo)]
           dest == FmtItemPath(Head(todo), src)
       IN fsfiles' = [p \in DOMAIN fsfiles \cup {dest} |->
                         IF p = dest THEN fsfiles[src] ELSE fsfiles[p]]
    /\ mpc' = "copy_set_path"
    /\ UNCHANGED <<dirs, item_path, call_item, todo, old_album_dir, visit,
                   returned, exceptMv>>

\* move_core.py:227  item.path = dest
CopySetItemPath ==
    /\ mpc = "copy_set_path"
    /\ item_path' = [item_path EXCEPT
                        ![Head(todo)] = FmtItemPath(Head(todo), item_path[Head(todo)])]
    /\ todo' = Tail(todo)
    /\ mpc' = "copy_file_item"
    /\ UNCHANGED <<dirs, fsfiles, call_item, old_album_dir, visit, returned,
                   exceptMv>>

\* move_core.py:225, 290  the copy or the rename raises (OSError): nothing
\* catches it, and the statements after it are not reached.  The mutant
\* has set the path before the file operation.
FileOperationRaisesAfterSetPath ==
    /\ mpc \in {"copyfile", "replace"}
    /\ item_path' = [item_path EXCEPT
                        ![Head(todo)] = FmtItemPath(Head(todo), item_path[Head(todo)])]
    /\ mpc' = "raised"
    /\ UNCHANGED <<dirs, fsfiles, call_item, todo, old_album_dir, visit,
                   returned, exceptMv>>
FileOperationRaises ==
    /\ mpc \in {"copyfile", "replace"}
    /\ mpc' = "raised"
    /\ UNCHANGED <<dirs, fsfiles, item_path, call_item, todo, old_album_dir, visit,
                   returned, exceptMv>>

\* copy_item returns
CopyItemReturns ==
    /\ mpc = "copy_file_item"
    /\ todo = <<>>
    /\ returned' = [returned EXCEPT ![Len(returned)] =
                        [@ EXCEPT !.done = TRUE, !.after = Snapshot]]
    /\ mpc' = "idle"
    /\ call_item' = "none"
    /\ UNCHANGED <<dirs, fsfiles, item_path, todo, old_album_dir, visit, exceptMv>>

\* move_core.py:191-194, 241-244  copy_item or move_item on an item of the
\* unknown kind: neither isinstance branch is taken, there is no else, the
\* function returns None
UnknownKindReturns ==
    /\ mpc = "idle"
    /\ Len(returned) < MaxCalls
    /\ returned' = Append(returned, [item |-> UnknownKind, called |-> item_path,
                                     done |-> TRUE, moved |-> Snapshot,
                                     after |-> Snapshot])
    /\ UNCHANGED <<dirs, fsfiles, item_path, mpc, call_item, todo, old_album_dir,
                   visit, exceptMv>>

\* move_core.py:58-65  fmt_item_path on an item of the unknown kind
FmtItemPathUnknown ==
    /\ mpc = "idle"
    /\ Len(returned) < MaxCalls
    /\ mpc' = "NotImplementedError"
    /\ call_item' = UnknownKind
    /\ UNCHANGED <<dirs, fsfiles, item_path, todo, old_album_dir, visit, returned,
                   exceptMv>>

OpNext ==
    \/ \E i \in Items : MoveItem(i)
    \/ \E i \in Items : CopyItem(i)
    \/ UnknownKindReturns
    \/ FmtItemPathUnknown
    \/ FileItemInPlace
    \/ MkdirDestParent
    \/ PathReplace
    \/ SetItemPath
    \/ CopyFileItemInPlace
    \/ CopyMkdirDestParent
    \/ Copyfile
    \/ CopySetItemPath
    \/ FileOperationRaises
    \/ StartCleanup
    \/ CleanupChild
    \/ CleanupOldDir
    \/ CleanupParent
    \/ MoveItemReturns
    \/ CopyItemReturns

OpSpec == OpInit /\ [][OpNext]_vars

(***************************************************************************)
(* C21                                                                     *)
(***************************************************************************)
\* _copy_file_item or _move_file_item is about to handle an item whose
\* destination is its path
InPlaceItem ==
    /\ mpc \in {"file_item", "copy_file_item"}
    /\ todo # <<>>
    /\ FmtItemPath(Head(todo), item_path[Head(todo)]) = item_path[Head(todo)]
\* the calls on a track or an extra that have returned and found the item
\* where the templates put it
InPlaceCalls ==
    {k \in ReturnedCalls :
        /\ returned[k].item \in {"track", "extra"}
        /\ FmtItemPath(returned[k].item, returned[k].called[returned[k].item])
              = returned[k].called[returned[k].item]}

\* C21: copy_item and move_item on a track or an extra whose destination
\* is its path do nothing: the step creates no directory, copies, moves and
\* overwrites no file, leaves every path as it is and returns normally, and
\* the call returns with the file system and the paths it was called with.
C21_InPlaceIsNoOp ==
    /\ [][InPlaceItem =>
                /\ UNCHANGED <<dirs, fsfiles, item_path, mpc>>
                /\ todo' = Tail(todo)]_vars
    /\ [](\A k \in InPlaceCalls : returned[k].after = returned[k].moved)

\* a call on the track and a call on the extra have returned, each having
\* found the item in place
C21_Witness ==
    /\ \E k \in InPlaceCalls : returned[k].item = "track"
    /\ \E k \in InPlaceCalls : returned[k].item = "extra"

(***************************************************************************)
(* C22                                                                     *)
(***************************************************************************)
\* the item _copy_file_item or _move_file_item is working on, the path it
\* had when copy_item or move_item was called, and its destination
CurItem == Head(todo)
CurOldPath == returned[Len(returned)].called[CurItem]
CurDest == FmtItemPath(CurItem, item_path[CurItem])

\* C22: for a track or an extra whose destination differs from its path,
\* the destination's directories exist before the file is copied or moved,
\* the file is at the destination before the path is set, and the path is
\* set to the destination last; if the copy or the move raises, nothing
\* catches the error and the item still has its old path.
C22_MkdirThenFileThenPath ==
    /\ [](/\ mpc \in {"copyfile", "replace"} =>
               /\ Parent(CurDest) \in dirs
               /\ CurDest # item_path[CurItem]
               /\ item_path[CurItem] = CurOldPath
               /\ CurOldPath \in DOMAIN fsfiles
          /\ mpc \in {"copy_set_path", "set_path"} =>
               /\ CurDest \in DOMAIN fsfiles
               /\ fsfiles[CurDest] = CurItem
               /\ item_path[CurItem] = CurOldPath
               /\ mpc = "copy_set_path" <=> CurOldPath \in DOMAIN fsfiles
          /\ mpc = "raised" => item_path[CurItem] = CurOldPath)
    /\ [][/\ mpc # "raised"
          /\ mpc \in {"copy_set_path", "set_path"} =>
                /\ item_path'[CurItem] = CurDest
                /\ UNCHANGED <<dirs, fsfiles>>]_vars

\* move_item or copy_item on the album has handled the track, whose path is
\* now its destination, and the copy or move of the extra has raised
C22_Witness ==
    /\ mpc = "raised"
    /\ call_item = "album"
    /\ CurItem = "extra"
    /\ "track" \in DOMAIN item_path
    /\ item_path["track"] # returned[Len(returned)].called["track"]
    /\ item_path["track"] \in DOMAIN fsfiles
    /\ Parent(CurDest) \in dirs

(***************************************************************************)
(* C24, C25, C29                                                           *)
(***************************************************************************)
\* C24: fmt_item_path, copy_item and move_item fail on an item that is
\* neither an album, a track nor an extra: no call on such an item returns
\* normally.
C24_UnknownKindFails ==
    \A k \in ReturnedCalls : returned[k].item # UnknownKind

\* C25: when copy_item or move_item on the album has returned, the album's
\* path, the track's and the extra's are the destinations fmt_item_path gave
\* during the call, the album's path is a directory that exists and each of
\* the others is a file that exists.
C25_AlbumAndItsFilesAtDest ==
    \A k \in AlbumCalls :
        LET c == returned[k].called
            a == returned[k].after
        IN /\ \A i \in DOMAIN c : a.item_path[i] = FmtItemPath(i, c[i])
           /\ a.item_path["album"] \in a.dirs
           /\ \A i \in DOMAIN c \ {"album"} : a.item_path[i] \in DOMAIN a.fsfiles

\* C29: between calls of copy_item and move_item the path of the track and
\* the path of the extra lie under the path of the album.
C29_Containment ==
    mpc = "idle" =>
        \A i \in DOMAIN item_path \ {"album"} : IsUnder(item_path[i], item_path["album"])

(***************************************************************************)
(* The path codec: PathType of moe/library/lib_item.py.  A path is a       *)
(* record: whether it is absolute, and its names; a string is a sequence   *)
(* of characters.                                                          *)
(***************************************************************************)
DotDot == <<".", ".">>
\* a symbolic link /s to the directory /lib/a, and the working directory /w
LinkName == <<"s">>
LinkTarget == LibraryPath \o <<(<<"a">>)>>
Cwd == <<(<<"w">>)>>

\* PathType.library_path
LibraryRoot == [abs |-> TRUE, names |-> LibraryPath]

\* str(path)
Str(p) ==
    IF p.abs THEN <<"/">> \o Join(p.names)
    ELSE IF p.names = <<>> THEN <<".">> ELSE Join(p.names)

\* Path(string): the names between the slashes, without the empty ones and
\* the "." ones
RECURSIVE DropEmptyAndDot(_)
DropEmptyAndDot(parts) ==
    IF parts = <<>> THEN <<>>
    ELSE (IF Head(parts) \in {<<>>, <<".">>} THEN <<>> ELSE <<Head(parts)>>)
            \o DropEmptyAndDot(Tail(parts))
PathOf(str) ==
    [abs |-> str # <<>> /\ str[1] = "/", names |-> DropEmptyAndDot(Split(str))]

\* r / string: an absolute right-hand side replaces the left-hand side.  The
\* mutant appends it in every case.
JoinpathAlwaysAppends(r, str) ==
    [abs |-> r.abs, names |-> r.names \o PathOf(str).names]
Joinpath(r, str) ==
    IF PathOf(str).abs THEN PathOf(str)
    ELSE [abs |-> r.abs, names |-> r.names \o PathOf(str).names]

\* path.relative_to(r) succeeds: r is a prefix of path, name by name
IsRelativeTo(p, r) ==
    /\ p.abs = r.abs
    /\ Len(p.names) >= Len(r.names)
    /\ SubSeq(p.names, 1, Len(r.names)) = r.names
RelativeTo(p, r) ==
    [abs |-> FALSE, names |-> SubSeq(p.names, Len(r.names) + 1, Len(p.names))]

\* path.resolve(): absolute, ".." gone, symbolic links followed
RECURSIVE Walk(_, _)
Walk(done, names) ==
    IF names = <<>> THEN done
    ELSE IF Head(names) = DotDot
         THEN Walk(IF done = <<>> THEN <<>> ELSE Parent(done), Tail(names))
         ELSE IF Append(done, Head(names)) = <<LinkName>>
              THEN Walk(LinkTarget, Tail(names))
              ELSE Walk(Append(done, Head(names)), Tail(names))
Resolve(p) ==
    [abs |-> TRUE, names |-> Walk(IF p.abs THEN <<>> ELSE Cwd, p.names)]

\* lib_item.py:264-278  process_bind_param
ProcessBindParam(p) ==
    IF IsRelativeTo(p, LibraryRoot)
    THEN Str(RelativeTo(p, LibraryRoot))
    ELSE Str(Resolve(p))

\* lib_item.py:280-285  process_result_value, for a string
ProcessResultValue(str) == Joinpath(LibraryRoot, str)

\* the names of the paths bound, and the paths
RECURSIVE NameSeqs(_, _)
NameSeqs(N, n) ==
    IF n = 0 THEN {<<>>}
    ELSE LET shorter == NameSeqs(N, n - 1)
         IN shorter \cup {Append(q, x) : q \in {y \in shorter : Len(y) = n - 1}, x \in N}
CodecNames == {LibraryPath[1], <<"a">>, DotDot, LinkName}
CodecPaths == [abs : BOOLEAN, names : NameSeqs(CodecNames, MaxPathLen)]
\* the strings read from the database that were not written by the codec
StoredStrings == Strings({"a", "/", "."}, MaxStrLen)

\* a path is about to be written, or a string is about to be read
CodecInit ==
    /\ \/ /\ pathlib_path \in CodecPaths
          /\ path_str = <<>>
          /\ cpc = "bind"
       \/ /\ pathlib_path = NoPath
          /\ path_str \in StoredStrings
          /\ cpc = "result"
    /\ decoded = NoPath
    /\ FlushUnused
    /\ DirUnused
    /\ SanUnused
    /\ TplUnused
    /\ MvUnused

\* the path is written
BindParam ==
    /\ cpc = "bind"
    /\ path_str' = ProcessBindParam(pathlib_path)
    /\ cpc' = "result"
    /\ UNCHANGED <<pathlib_path, decoded, exceptCodec>>

\* the string is read
ResultValue ==
    /\ cpc = "result"
    /\ decoded' = ProcessResultValue(path_str)
    /\ cpc' = "done"
    /\ UNCHANGED <<pathlib_path, path_str, exceptCodec>>

CodecNext == BindParam \/ ResultValue

CodecSpec == CodecInit /\ [][CodecNext]_vars

(***************************************************************************)
(* C23                                                                     *)
(***************************************************************************)
\* C23: a path under the library path is stored as the string of its names
\* after the library path and read back as the same path; any other path is
\* stored, without an error, as the string of the resolved absolute path and
\* read back as that path; whatever string is read, the path returned is
\* absolute.
C23_CodecRoundTrip ==
    /\ cpc = "done" => decoded.abs
    /\ cpc = "done" /\ pathlib_path # NoPath =>
          LET P == pathlib_path
              n == Len(LibraryPath)
          IN IF P.abs /\ Len(P.names) >= n /\ SubSeq(P.names, 1, n) = LibraryPath
             THEN /\ decoded = P
                  /\ path_str = IF Len(P.names) = n THEN <<".">>
                                 ELSE Join(SubSeq(P.names, n + 1, Len(P.names)))
             ELSE /\ path_str = <<"/">> \o Join(Resolve(P).names)
                  /\ decoded = Resolve(P)

\* the path /lib/../a, which is under the library path name by name, has
\* been written as "../a" and read back
C23_Witness ==
    /\ cpc = "done"
    /\ pathlib_path = [abs |-> TRUE, names |-> LibraryPath \o <<DotDot, (<<"a">>)>>]
    /\ path_str = <<".", ".", "/", "a">>
    /\ decoded = pathlib_path

====
